---- MODULE Spec2Model ----
(***************************************************************************)
(* GROZY telemetry and admission control.                                  *)
(*                                                                         *)
(*   security_config.py      SecurityManager, check_rate_limit,            *)
(*                           apply_rate_limit                              *)
(*   grozy_observability.py  AgentMetrics                                  *)
(*   grozy_api.py            chat, invoke_agent_with_metrics, the          *)
(*                           rate-limited endpoints                        *)
(*                                                                         *)
(* Every request is served by a thread of the threaded Flask server.  A    *)
(* thread's position is pc[t], its Python locals are frame[t].  Python     *)
(* lists are objects on a heap: rate_limit_storage maps a client to a      *)
(* reference, and so does the local recent_requests.                       *)
(***************************************************************************)
EXTENDS Integers, Sequences, FiniteSets, TLC

\* ------------------------------------------------------------ bounds
Threads == {1, 2}
MainThread == CHOOSE t \in Threads : \A u \in Threads : t <= u
Clients == {"10.0.0.1", "10.0.0.2"}
FirstClient == "10.0.0.1"
\* the clock advances at most MaxTicks times, by one of Jumps seconds
MaxTicks == 2
Jumps == {1, 59}
\* at most MaxRejects rejected calls are made in a run
MaxRejects == 2
\* concurrent runs make at most MaxConcCalls calls
MaxConcCalls == 2
\* at most MaxMetricCalls calls of AgentMetrics methods are made in a run
MaxMetricCalls == 2
\* the rounds of calls made before a run that starts with full sequences
WarmCalls == 100
MaxServed == 2
MaxPrecisionCalls == 1
MaxToolListLen == 2
MaxSummaryCalls == 2
MaxReportCalls == 1

\* ------------------------------------------------ program constants
\* check_rate_limit(security_manager, ip_address, max_requests=20, window_seconds=60)
MAX_REQUESTS == 20
WINDOW_SECONDS == 60
\* log_security_event: "Mantener solo últimos 1000 eventos"
SECURITY_LOG_CAP == 1000
MAX_MESSAGE_LENGTH == 2000
MIN_MESSAGE_LENGTH == 3

Nil == 0
ObjIds == 1 .. (Cardinality(Clients) + Cardinality(Threads))

VARIABLES
    pc,                  \* thread -> position in the code
    frame,               \* thread -> locals of the running call
    ret,                 \* thread -> what its last call returned
    req,                 \* thread -> the HTTP request it serves
    served,              \* history: number of HTTP requests begun since Init
    artifact,            \* the file data/metrics.json: what it holds
    now,                 \* datetime.now(), in seconds
    rate_limit_storage,  \* SecurityManager.rate_limit_storage: client -> list reference (Nil: no key)
    heap,                \* list reference -> the list's elements
    security_log,        \* SecurityManager.security_log
    admitted,            \* history: client -> the times of its admitted calls, in order
    begun,               \* history: number of check_rate_limit calls begun since Init
    ticks,               \* history: number of clock advances
    metrics,             \* AgentMetrics.metrics
    lock,                \* AgentMetrics.lock: the thread that holds it, or NoThread
    appended,            \* history: sequence name -> number of entries ever appended to it
    completed,           \* history: the record_request calls that returned normally
    mcalls               \* history: number of AgentMetrics calls begun since Init

rateVars == <<rate_limit_storage, heap, security_log, admitted, begun>>
clockVars == <<now, ticks>>
metricVars == <<metrics, lock, appended, completed, mcalls>>
ioVars == <<served, artifact>>
apiVars == <<req, served, artifact>>
vars == <<pc, frame, ret, apiVars, clockVars, rateVars, metricVars>>

\* ------------------------------------------------------------ helpers
\* no file has been written yet
NoFile == <<>>

\* x[:n]
Oldest(s, n) == IF Len(s) > n THEN SubSeq(s, 1, n) ELSE s

\* x[-n:]
Last(s, n) == IF Len(s) > n THEN SubSeq(s, Len(s) - n + 1, Len(s)) ELSE s

NoFrame == [ip |-> "", now |-> 0, cutoff |-> 0, recent |-> Nil]
NoRet == [kind |-> "none"]
NoReq == [endpoint |-> "none", resume |-> "idle"]

\* where a thread continues when the call it makes returns or raises
AfterCall(t) == req[t].resume

\* the list objects some name still refers to
Live(storage, fr) ==
    ({storage[c] : c \in Clients}
        \cup {IF "recent" \in DOMAIN fr[t] THEN fr[t].recent ELSE Nil : t \in Threads}) \ {Nil}

\* one list object handed out for every list
NewObjShared(storage, fr) == CHOOSE o \in ObjIds : \A p \in ObjIds : o <= p

\* a fresh list object: the lowest reference nothing refers to
NewObj(storage, fr) ==
    CHOOSE o \in ObjIds : /\ o \notin Live(storage, fr)
                          /\ \A p \in ObjIds : p \notin Live(storage, fr) => o <= p

\* objects nothing refers to any more are reclaimed
Collect(h, storage, fr) ==
    [o \in ObjIds |-> IF o \in Live(storage, fr) THEN h[o] ELSE <<>>]

\* ------------------------------------------- SecurityManager.log_security_event
\* _anonymize_ip: an IPv4 address keeps its first two parts, '.'.join(parts[:2]) + '.***'
AnonymizeIp(ip) == IF ip \in {"10.0.0.1", "10.0.0.2"} THEN "10.0.***" ELSE ip

LogSecurityEventDropped(log, event_type, ip) == log

\* a log that, once full, keeps what it has and drops the new event
LogSecurityEventKeepsOldest(log, event_type, ip) ==
    LET grown == Append(log, [type |-> event_type, ip |-> AnonymizeIp(ip), client |-> ip])
    IN  IF Len(grown) > SECURITY_LOG_CAP THEN SubSeq(grown, 1, SECURITY_LOG_CAP)
        ELSE grown

\* the event holds the anonymized address; client, the address it was logged for, is
\* history and not part of the event
LogSecurityEvent(log, event_type, ip) ==
    LET grown == Append(log, [type |-> event_type, ip |-> AnonymizeIp(ip), client |-> ip])
    IN  IF Len(grown) > SECURITY_LOG_CAP THEN Last(grown, SECURITY_LOG_CAP)
        ELSE grown

\* ------------------------------------------------------ check_rate_limit
RecentRequestsNoPurge(lst, cutoff) == lst

\* a window closed at its old end: a timestamp exactly at the cutoff still counts
RecentRequestsInclusive(lst, cutoff) == SelectSeq(lst, LAMBDA ts : ts >= cutoff)

\* [ts for ts in storage[ip] if ts > cutoff]
RecentRequests(lst, cutoff) == SelectSeq(lst, LAMBDA ts : ts > cutoff)

LimitReachedOffByOne(n) == n > MAX_REQUESTS

\* if len(recent_requests) >= max_requests
LimitReached(n) == n >= MAX_REQUESTS

\* the call begins: now = datetime.now(); cutoff = now - timedelta(seconds=window_seconds)
CrlCall(t, c) ==
    /\ pc' = [pc EXCEPT ![t] = "crl_init"]
    /\ frame' = [frame EXCEPT ![t] = [ip |-> c, now |-> now,
                                      cutoff |-> now - WINDOW_SECONDS, recent |-> Nil]]
    /\ ret' = [ret EXCEPT ![t] = NoRet]
    /\ begun' = begun + 1
    /\ UNCHANGED <<now, rate_limit_storage, heap, security_log, admitted, ticks>>
    /\ UNCHANGED metricVars

\* check_rate_limit called on its own
CrlBegin(t, c) ==
    /\ pc[t] = "idle"
    /\ Len(security_log) < MaxRejects
    /\ CrlCall(t, c)
    /\ UNCHANGED apiVars

\* if ip_address not in storage: storage[ip_address] = []
CrlInit(t) ==
    /\ pc[t] = "crl_init"
    /\ LET c == frame[t].ip
       IN  IF rate_limit_storage[c] = Nil
           THEN LET o == NewObj(rate_limit_storage, frame)
                IN  /\ rate_limit_storage' = [rate_limit_storage EXCEPT ![c] = o]
                    /\ heap' = [heap EXCEPT ![o] = <<>>]
           ELSE UNCHANGED <<rate_limit_storage, heap>>
    /\ pc' = [pc EXCEPT ![t] = "crl_filter"]
    /\ UNCHANGED <<frame, ret, now, security_log, admitted, begun, ticks>>
    /\ UNCHANGED <<apiVars, metricVars>>

\* recent_requests = [ts for ts in storage[ip_address] if ts > cutoff]
CrlFilter(t) ==
    /\ pc[t] = "crl_filter"
    /\ LET c == frame[t].ip
           o == NewObj(rate_limit_storage, frame)
       IN  /\ heap' = [heap EXCEPT ![o] =
                          RecentRequests(heap[rate_limit_storage[c]], frame[t].cutoff)]
           /\ frame' = [frame EXCEPT ![t].recent = o]
    /\ pc' = [pc EXCEPT ![t] = "crl_store"]
    /\ UNCHANGED <<ret, now, rate_limit_storage, security_log, admitted, begun, ticks>>
    /\ UNCHANGED <<apiVars, metricVars>>

\* storage[ip_address] = recent_requests
CrlStore(t) ==
    /\ pc[t] = "crl_store"
    /\ LET c == frame[t].ip
           storage == [rate_limit_storage EXCEPT ![c] = frame[t].recent]
       IN  /\ rate_limit_storage' = storage
           /\ heap' = Collect(heap, storage, frame)
    /\ pc' = [pc EXCEPT ![t] = "crl_check"]
    /\ UNCHANGED <<frame, ret, now, security_log, admitted, begun, ticks>>
    /\ UNCHANGED <<apiVars, metricVars>>

\* if len(recent_requests) >= max_requests: log_security_event(...); return False, 0
CrlReject(t) ==
    /\ pc[t] = "crl_check"
    /\ LimitReached(Len(heap[frame[t].recent]))
    /\ security_log' = LogSecurityEvent(security_log, "rate_limit_exceeded", frame[t].ip)
    /\ ret' = [ret EXCEPT ![t] = [kind |-> "crl", ip |-> frame[t].ip, at |-> frame[t].now,
                                  allowed |-> FALSE, remaining |-> 0]]
    /\ LET fr == [frame EXCEPT ![t] = NoFrame]
       IN  /\ frame' = fr
           /\ heap' = Collect(heap, rate_limit_storage, fr)
    /\ pc' = [pc EXCEPT ![t] = AfterCall(t)]
    /\ UNCHANGED <<now, rate_limit_storage, admitted, begun, ticks>>
    /\ UNCHANGED <<apiVars, metricVars>>

\* storage[ip_address].append(now)
CrlAppend(t) ==
    /\ pc[t] = "crl_check"
    /\ ~LimitReached(Len(heap[frame[t].recent]))
    /\ LET c == frame[t].ip
       IN  /\ heap' = [heap EXCEPT ![rate_limit_storage[c]] = Append(@, frame[t].now)]
           /\ admitted' = [admitted EXCEPT ![c] = Append(@, frame[t].now)]
    /\ pc' = [pc EXCEPT ![t] = "crl_remaining"]
    /\ UNCHANGED <<frame, ret, now, rate_limit_storage, security_log, begun, ticks>>
    /\ UNCHANGED <<apiVars, metricVars>>

\* remaining = max_requests - len(recent_requests) - 1; return True, remaining
CrlReturn(t) ==
    /\ pc[t] = "crl_remaining"
    /\ ret' = [ret EXCEPT ![t] =
                  [kind |-> "crl", ip |-> frame[t].ip, at |-> frame[t].now,
                   allowed |-> TRUE,
                   remaining |-> MAX_REQUESTS - Len(heap[frame[t].recent]) - 1]]
    /\ LET fr == [frame EXCEPT ![t] = NoFrame]
       IN  /\ frame' = fr
           /\ heap' = Collect(heap, rate_limit_storage, fr)
    /\ pc' = [pc EXCEPT ![t] = AfterCall(t)]
    /\ UNCHANGED <<now, rate_limit_storage, security_log, admitted, begun, ticks>>
    /\ UNCHANGED <<apiVars, metricVars>>

\* a timer that purges the expired timestamps of every client as time passes
TickPurging(d) ==
    /\ ticks < MaxTicks
    /\ now' = now + d
    /\ ticks' = ticks + 1
    /\ heap' = [o \in DOMAIN heap |-> RecentRequests(heap[o], now + d - WINDOW_SECONDS)]
    /\ UNCHANGED <<pc, frame, ret, rate_limit_storage, security_log, admitted, begun>>
    /\ UNCHANGED <<apiVars, metricVars>>

\* time passes
Tick(d) ==
    /\ ticks < MaxTicks
    /\ now' = now + d
    /\ ticks' = ticks + 1
    /\ UNCHANGED <<pc, frame, ret, rate_limit_storage, heap, security_log, admitted, begun>>
    /\ UNCHANGED <<apiVars, metricVars>>

CrlStep(t) ==
    \/ CrlInit(t)
    \/ CrlFilter(t)
    \/ CrlStore(t)
    \/ CrlReject(t)
    \/ CrlAppend(t)
    \/ CrlReturn(t)


\* ================================================================ AgentMetrics
NoThread == 0
ToolNames == {"buscar_productos", "generar_carro_optimizado"}

\* "Limitar historial a últimos 100 registros" and the other trims
LATENCY_HISTORY_CAP == 100
RESOURCE_USAGE_CAP == 50
EXECUTION_TRACES_CAP == 50
PRECISION_SCORES_CAP == 50
CONSISTENCY_CHECKS_CAP == 30

\* ----------------------------------------------------------------- texts
\* A text is a sequence of words separated by single blanks; a word is [w, n], the
\* first n characters of the vocabulary word w.
WordChars(w) ==
    CASE w = "carro" -> 5
      [] w = "Carro" -> 5
      [] w = "vegano" -> 6
      [] w = "parrafo" -> 250
      [] w = "ab" -> 2
      [] w = "select" -> 6
      [] w = "<b>" -> 3
      [] OTHER -> 1
Word(w) == [w |-> w, n |-> WordChars(w)]

\* len(text)
RECURSIVE TextLen(_)
TextLen(txt) ==
    IF txt = <<>> THEN 0
    ELSE txt[1].n + (IF Len(txt) > 1 THEN 1 ELSE 0) + TextLen(Tail(txt))

\* text[:k]
RECURSIVE Slice(_, _)
Slice(txt, k) ==
    IF txt = <<>> \/ k <= 0 THEN <<>>
    ELSE IF txt[1].n >= k THEN <<[w |-> txt[1].w, n |-> k]>>
    ELSE <<txt[1]>> \o Slice(Tail(txt), k - txt[1].n - 1)

\* str.lower(), word by word
LowerWord(x) == [w |-> IF x.w = "Carro" THEN "carro" ELSE x.w, n |-> x.n]
Lower(txt) == [i \in 1 .. Len(txt) |-> LowerWord(txt[i])]

\* set(text.split())
WordSet(txt) == {txt[i] : i \in 1 .. Len(txt)}

\* what psutil reports (cpu_percent, memory.percent, memory.used in MB), or its failure
Samples == {[cpu_percent |-> 10, memory_percent |-> 40, memory_used_mb |-> 512]}
SampleFails == [cpu_percent |-> -1]

\* ------------------------------------------------------------ the state
FreshMetrics ==
    [total_requests |-> 0, successful_requests |-> 0, failed_requests |-> 0,
     total_latency |-> 0, tool_calls |-> [x \in ToolNames |-> 0],
     errors |-> <<>>, latency_history |-> <<>>, precision_scores |-> <<>>,
     resource_usage |-> <<>>, execution_traces |-> <<>>, consistency_checks |-> <<>>]

SequenceNames == {"errors", "latency_history", "precision_scores", "resource_usage",
                  "execution_traces", "consistency_checks"}

NoneAppended == [n \in SequenceNames |-> 0]

\* the parts of the state record_request writes, as a call sees them
Core(m, app) ==
    [total_requests |-> m.total_requests, successful_requests |-> m.successful_requests,
     failed_requests |-> m.failed_requests, total_latency |-> m.total_latency,
     tool_calls |-> m.tool_calls, errors |-> app["errors"],
     latency_history |-> app["latency_history"]]

\* ------------------------------------------------------------- the lock
CanAcquireNoLock(t) == TRUE

\* with self.lock: the lock is free
CanAcquire(t) == lock = NoThread

\* with self.lock, entered
Acquire(t, next) ==
    /\ CanAcquire(t)
    /\ lock' = t
    /\ pc' = [pc EXCEPT ![t] = next]

\* a call returns value (leaving a with block releases the lock)
Return(t, value) ==
    /\ ret' = [ret EXCEPT ![t] = value]
    /\ frame' = [frame EXCEPT ![t] = NoFrame]
    /\ pc' = [pc EXCEPT ![t] = AfterCall(t)]

\* a step of a call moves to the next line
Goto(t, next) == pc' = [pc EXCEPT ![t] = next]

\* x[-cap:] when len(x) > cap
TrimOffByOne(seq, cap) == IF Len(seq) > cap + 1 THEN Last(seq, cap) ELSE seq

TrimKeepsOldest(seq, cap) == IF Len(seq) > cap THEN SubSeq(seq, 1, cap) ELSE seq

Trim(seq, cap) == IF Len(seq) > cap THEN Last(seq, cap) ELSE seq

\* -------------------------------------------------- AgentMetrics.record_request
\* the arguments of a call: fault names the line that raises on this argument list
\* ("format": latency cannot be formatted with :.2f, "entry": request_text cannot be
\* sliced, "tools": tools_used cannot be iterated), "none" when they are well formed
RecordArgs(success, latency, tools_used, fault) ==
    [op |-> "record_request", success |-> success, latency |-> latency,
     tools_used |-> tools_used, fault |-> fault,
     error |-> IF success THEN <<>> ELSE <<Word("Carro")>>,
     request_text |-> <<Word("Carro"), Word("parrafo")>>,
     tmp |-> 0, i |-> 1, timestamp |-> 0, entry |-> Core(FreshMetrics, NoneAppended),
     sampling |-> "none", usage |-> 0]

RrCall(t, args) ==
    /\ mcalls' = mcalls + 1
    /\ frame' = [frame EXCEPT ![t] = args]
    /\ ret' = [ret EXCEPT ![t] = NoRet]
    /\ Goto(t, "rr_lock")
    /\ UNCHANGED <<clockVars, rateVars, metrics, lock, appended, completed>>

RrBegin(t, args) == pc[t] = "idle" /\ RrCall(t, args) /\ UNCHANGED apiVars

\* with self.lock:
RrLock(t) ==
    /\ pc[t] = "rr_lock"
    /\ Acquire(t, "rr_total")
    /\ frame' = [frame EXCEPT ![t].entry = Core(metrics, appended),
                               ![t].usage = appended["resource_usage"]]
    /\ UNCHANGED <<ret, apiVars, clockVars, rateVars, metrics, appended, completed, mcalls>>

\* an exception that leaves the method with the lock still held
RrRaiseHoldingLock(t, line) ==
    /\ UNCHANGED lock
    /\ Return(t, [kind |-> "raised", op |-> "record_request", line |-> line,
                  before |-> frame[t].entry, after |-> Core(metrics, appended)])

\* the exception leaves the with block: the lock is released, the call raises
RrRaise(t, line) ==
    /\ lock' = NoThread
    /\ Return(t, [kind |-> "raised", op |-> "record_request", line |-> line,
                  before |-> frame[t].entry, after |-> Core(metrics, appended)])

\* self.metrics['total_requests'] += 1, the read
RrTotalRead(t) ==
    /\ pc[t] = "rr_total"
    /\ frame' = [frame EXCEPT ![t].tmp = metrics.total_requests]
    /\ Goto(t, "rr_total_w")
    /\ UNCHANGED <<ret, apiVars, clockVars, rateVars, metricVars>>

\* self.metrics['total_requests'] += 1, the write; timestamp = datetime.now().isoformat()
RrTotalWrite(t) ==
    /\ pc[t] = "rr_total_w"
    /\ metrics' = [metrics EXCEPT !.total_requests = frame[t].tmp + 1]
    /\ frame' = [frame EXCEPT ![t].timestamp = now]
    /\ Goto(t, "rr_outcome")
    /\ UNCHANGED <<ret, apiVars, clockVars, rateVars, lock, appended, completed, mcalls>>

\* if success: successful_requests += 1 / else: failed_requests += 1, the read
RrOutcomeRead(t) ==
    /\ pc[t] = "rr_outcome"
    /\ frame' = [frame EXCEPT ![t].tmp = IF frame[t].success
                                         THEN metrics.successful_requests
                                         ELSE metrics.failed_requests]
    /\ Goto(t, "rr_outcome_w")
    /\ UNCHANGED <<ret, apiVars, clockVars, rateVars, metricVars>>

\* if success: successful_requests += 1 / else: failed_requests += 1, the write
RrOutcomeWrite(t) ==
    /\ pc[t] = "rr_outcome_w"
    /\ metrics' = IF frame[t].success
                  THEN [metrics EXCEPT !.successful_requests = frame[t].tmp + 1]
                  ELSE [metrics EXCEPT !.failed_requests = frame[t].tmp + 1]
    /\ Goto(t, "rr_branch")
    /\ UNCHANGED <<frame, ret, apiVars, clockVars, rateVars, lock, appended, completed, mcalls>>

\* success: logger.info(f"... Latencia: {latency:.2f}s ...")
\* failure: error_entry = {..., 'request': request_text[:200]}; errors.append(error_entry)
RrBranch(t) ==
    /\ pc[t] = "rr_branch"
    /\ IF frame[t].success
       THEN IF frame[t].fault = "format"
            THEN RrRaise(t, "format") /\ UNCHANGED <<metrics, appended>>
            ELSE Goto(t, "rr_latency") /\ UNCHANGED <<frame, ret, lock, metrics, appended>>
       ELSE IF frame[t].fault = "entry"
            THEN RrRaise(t, "entry") /\ UNCHANGED <<metrics, appended>>
            ELSE /\ metrics' = [metrics EXCEPT !.errors = Append(@,
                                   [seq |-> appended["errors"] + 1,
                                    timestamp |-> frame[t].timestamp,
                                    error |-> frame[t].error,
                                    tools_used |-> frame[t].tools_used,
                                    request |-> Slice(frame[t].request_text, 200)])]
                 /\ appended' = [appended EXCEPT !["errors"] = @ + 1]
                 /\ Goto(t, "rr_latency")
                 /\ UNCHANGED <<frame, ret, lock>>
    /\ UNCHANGED <<apiVars, clockVars, rateVars, completed, mcalls>>

\* self.metrics['total_latency'] += latency
RrLatency(t) ==
    /\ pc[t] = "rr_latency"
    /\ metrics' = [metrics EXCEPT !.total_latency = @ + frame[t].latency]
    /\ Goto(t, "rr_history")
    /\ UNCHANGED <<frame, ret, apiVars, clockVars, rateVars, lock, appended, completed, mcalls>>

\* self.metrics['latency_history'].append({timestamp, latency, success})
RrHistory(t) ==
    /\ pc[t] = "rr_history"
    /\ metrics' = [metrics EXCEPT !.latency_history = Append(@,
                      [seq |-> appended["latency_history"] + 1,
                       timestamp |-> frame[t].timestamp,
                       latency |-> frame[t].latency, success |-> frame[t].success])]
    /\ appended' = [appended EXCEPT !["latency_history"] = @ + 1]
    /\ Goto(t, "rr_history_trim")
    /\ UNCHANGED <<frame, ret, apiVars, clockVars, rateVars, lock, completed, mcalls>>

\* if len(latency_history) > 100: latency_history = latency_history[-100:]
RrHistoryTrim(t) ==
    /\ pc[t] = "rr_history_trim"
    /\ metrics' = [metrics EXCEPT !.latency_history = Trim(@, LATENCY_HISTORY_CAP)]
    /\ frame' = [frame EXCEPT ![t].i = 1]
    /\ Goto(t, "rr_tools")
    /\ UNCHANGED <<ret, apiVars, clockVars, rateVars, lock, appended, completed, mcalls>>

\* an element of tools_used that cannot be a dictionary key (a list, say):
\* tool_calls[tool] raises TypeError
Unhashable == "[]"

\* for tool in tools_used: tool_calls[tool] += 1, the read (the end of the loop calls
\* self._record_resource_usage()); the fault "tools" is a tools_used that cannot be
\* iterated (None)
RrToolRead(t) ==
    /\ pc[t] = "rr_tools"
    /\ IF frame[t].fault = "tools"
       THEN RrRaise(t, "tools")
       ELSE IF frame[t].i > Len(frame[t].tools_used)
            THEN Goto(t, "rr_sample") /\ UNCHANGED <<frame, ret, lock>>
            ELSE IF frame[t].tools_used[frame[t].i] = Unhashable
                 THEN RrRaise(t, "tool_key")
                 ELSE /\ frame' = [frame EXCEPT ![t].tmp =
                                      metrics.tool_calls[frame[t].tools_used[frame[t].i]]]
                      /\ Goto(t, "rr_tools_w")
                      /\ UNCHANGED <<ret, lock>>
    /\ UNCHANGED <<apiVars, clockVars, rateVars, metrics, appended, completed, mcalls>>

\* for tool in tools_used: tool_calls[tool] += 1, the write
RrToolWrite(t) ==
    /\ pc[t] = "rr_tools_w"
    /\ metrics' = [metrics EXCEPT !.tool_calls[frame[t].tools_used[frame[t].i]] =
                      frame[t].tmp + 1]
    /\ frame' = [frame EXCEPT ![t].i = @ + 1]
    /\ Goto(t, "rr_tools")
    /\ UNCHANGED <<ret, apiVars, clockVars, rateVars, lock, appended, completed, mcalls>>

\* psutil raises and nothing catches it: the exception leaves record_request
SampleFailurePropagates(t) ==
    /\ lock' = NoThread
    /\ Return(t, [kind |-> "raised", op |-> "record_request", line |-> "sample",
                  before |-> frame[t].entry, after |-> Core(metrics, appended)])
    /\ UNCHANGED <<metrics, appended>>

\* except Exception as e: logger.warning(...): the failure is logged and dropped
OnSampleFailure(t) ==
    /\ frame' = [frame EXCEPT ![t].sampling = "failed"]
    /\ Goto(t, "rr_unlock")
    /\ UNCHANGED <<ret, lock, metrics, appended>>

\* _record_resource_usage: psutil.cpu_percent(interval=0.1), psutil.virtual_memory();
\* resource_usage.append(resource_entry); an exception is caught and logged
RrSample(t) ==
    /\ pc[t] = "rr_sample"
    /\ \E sample \in Samples \cup {SampleFails} :
          IF sample = SampleFails
          THEN OnSampleFailure(t)
          ELSE /\ metrics' = [metrics EXCEPT !.resource_usage = Append(@,
                                 [seq |-> appended["resource_usage"] + 1,
                                  timestamp |-> now,
                                  cpu_percent |-> sample.cpu_percent,
                                  memory_percent |-> sample.memory_percent,
                                  memory_used_mb |-> sample.memory_used_mb])]
               /\ appended' = [appended EXCEPT !["resource_usage"] = @ + 1]
               /\ frame' = [frame EXCEPT ![t].sampling = "sampled"]
               /\ Goto(t, "rr_sample_trim")
               /\ UNCHANGED <<ret, lock>>
    /\ UNCHANGED <<apiVars, clockVars, rateVars, completed, mcalls>>

\* if len(resource_usage) > 50: resource_usage = resource_usage[-50:]
RrSampleTrim(t) ==
    /\ pc[t] = "rr_sample_trim"
    /\ metrics' = [metrics EXCEPT !.resource_usage = Trim(@, RESOURCE_USAGE_CAP)]
    /\ Goto(t, "rr_unlock")
    /\ UNCHANGED <<frame, ret, apiVars, clockVars, rateVars, lock, appended, completed, mcalls>>

\* the with block ends: the lock is released and record_request returns None
RrUnlock(t) ==
    /\ pc[t] = "rr_unlock"
    /\ lock' = NoThread
    /\ completed' = Append(completed, [success |-> frame[t].success,
                                       latency |-> frame[t].latency,
                                       tools_used |-> frame[t].tools_used])
    /\ Return(t, [kind |-> "recorded", before |-> frame[t].entry,
                  after |-> Core(metrics, appended),
                  success |-> frame[t].success, tools_used |-> frame[t].tools_used,
                  sampling |-> frame[t].sampling,
                  usage |-> [before |-> frame[t].usage,
                             after |-> appended["resource_usage"]]])
    /\ UNCHANGED <<apiVars, clockVars, rateVars, metrics, appended, mcalls>>

RrStep(t) ==
    \/ RrLock(t)
    \/ RrTotalRead(t)
    \/ RrTotalWrite(t)
    \/ RrOutcomeRead(t)
    \/ RrOutcomeWrite(t)
    \/ RrBranch(t)
    \/ RrLatency(t)
    \/ RrHistory(t)
    \/ RrHistoryTrim(t)
    \/ RrToolRead(t)
    \/ RrToolWrite(t)
    \/ RrSample(t)
    \/ RrSampleTrim(t)
    \/ RrUnlock(t)

\* ---------------------------------------------------- AgentMetrics.record_trace
TraceArgs(request, response, tools_used, latency) ==
    [op |-> "record_trace", request |-> request, response |-> response,
     tools_used |-> tools_used, latency |-> latency, success |-> TRUE, fault |-> "none"]

RtCall(t, args) ==
    /\ mcalls' = mcalls + 1
    /\ frame' = [frame EXCEPT ![t] = args]
    /\ ret' = [ret EXCEPT ![t] = NoRet]
    /\ Goto(t, "rt_lock")
    /\ UNCHANGED <<clockVars, rateVars, metrics, lock, appended, completed>>

RtBegin(t, args) == pc[t] = "idle" /\ RtCall(t, args) /\ UNCHANGED apiVars

\* with self.lock:
RtLock(t) ==
    /\ pc[t] = "rt_lock"
    /\ Acquire(t, "rt_append")
    /\ UNCHANGED <<frame, ret, apiVars, clockVars, rateVars, metrics, appended, completed, mcalls>>

\* trace = {..., 'request': request[:300], 'response': response[:500], ...}
\* self.metrics['execution_traces'].append(trace)
\* (fault "response": the response cannot be sliced, the line raises and the exception
\* leaves the with block)
RtAppend(t) ==
    /\ pc[t] = "rt_append"
    /\ IF frame[t].fault = "response"
       THEN /\ lock' = NoThread
            /\ Return(t, [kind |-> "raised", op |-> "record_trace", line |-> "response"])
            /\ UNCHANGED <<metrics, appended>>
       ELSE /\ metrics' = [metrics EXCEPT !.execution_traces = Append(@,
                              [seq |-> appended["execution_traces"] + 1, timestamp |-> now,
                               request |-> Slice(frame[t].request, 300),
                               response |-> Slice(frame[t].response, 500),
                               tools_used |-> frame[t].tools_used,
                               latency |-> frame[t].latency, success |-> frame[t].success])]
            /\ appended' = [appended EXCEPT !["execution_traces"] = @ + 1]
            /\ Goto(t, "rt_trim")
            /\ UNCHANGED <<frame, ret, lock>>
    /\ UNCHANGED <<apiVars, clockVars, rateVars, completed, mcalls>>

\* if len(execution_traces) > 50: execution_traces = execution_traces[-50:]
RtTrim(t) ==
    /\ pc[t] = "rt_trim"
    /\ metrics' = [metrics EXCEPT !.execution_traces = Trim(@, EXECUTION_TRACES_CAP)]
    /\ Goto(t, "rt_unlock")
    /\ UNCHANGED <<frame, ret, apiVars, clockVars, rateVars, lock, appended, completed, mcalls>>

\* logger.info(...); the with block ends
RtUnlock(t) ==
    /\ pc[t] = "rt_unlock"
    /\ lock' = NoThread
    /\ Return(t, [kind |-> "traced"])
    /\ UNCHANGED <<apiVars, clockVars, rateVars, metrics, appended, completed, mcalls>>

RtStep(t) == RtLock(t) \/ RtAppend(t) \/ RtTrim(t) \/ RtUnlock(t)

\* --------------------------------------------- AgentMetrics.calculate_precision
\* a float that is the quotient of two integers
Frac(n, d) == [num |-> n, den |-> d]
\* f > n / d
FracGt(f, n, d) == f.num * d > n * f.den

ToolSet(lst) == {lst[i] : i \in 1 .. Len(lst)}

\* "Precisión = Herramientas correctas / Total esperadas"
PrecisionOverExpected(expected_tools, actual_tools) ==
    LET correct == Cardinality(ToolSet(expected_tools) \cap ToolSet(actual_tools))
        total == Cardinality(ToolSet(expected_tools))
    IN  IF total > 0 THEN Frac(correct, total) ELSE Frac(0, 1)

\* correct = len(set(expected) & set(actual)); total = len(set(expected) | set(actual))
\* precision = correct / total if total > 0 else 0
Precision(expected_tools, actual_tools) ==
    LET correct == Cardinality(ToolSet(expected_tools) \cap ToolSet(actual_tools))
        total == Cardinality(ToolSet(expected_tools) \cup ToolSet(actual_tools))
    IN  IF total > 0 THEN Frac(correct, total) ELSE Frac(0, 1)

PrecisionArgs(expected_tools, actual_tools) ==
    [op |-> "calculate_precision", expected_tools |-> expected_tools,
     actual_tools |-> actual_tools, precision |-> Frac(0, 1)]

\* if not expected_tools: return 1.0; otherwise precision is computed
CpBegin(t, args) ==
    /\ pc[t] = "idle"
    /\ mcalls' = mcalls + 1
    /\ IF args.expected_tools = <<>>
       THEN /\ ret' = [ret EXCEPT ![t] = [kind |-> "precision", value |-> Frac(1, 1),
                                          expected |-> <<>>, actual |-> args.actual_tools]]
            /\ UNCHANGED <<pc, frame>>
       ELSE /\ frame' = [frame EXCEPT ![t] =
                            [args EXCEPT !.precision =
                                Precision(args.expected_tools, args.actual_tools)]]
            /\ ret' = [ret EXCEPT ![t] = NoRet]
            /\ Goto(t, "cp_lock")
    /\ UNCHANGED <<apiVars, clockVars, rateVars, metrics, lock, appended, completed>>

\* with self.lock:
CpLock(t) ==
    /\ pc[t] = "cp_lock"
    /\ Acquire(t, "cp_append")
    /\ UNCHANGED <<frame, ret, apiVars, clockVars, rateVars, metrics, appended, completed, mcalls>>

\* self.metrics['precision_scores'].append({timestamp, precision, expected, actual})
CpAppend(t) ==
    /\ pc[t] = "cp_append"
    /\ metrics' = [metrics EXCEPT !.precision_scores = Append(@,
                      [seq |-> appended["precision_scores"] + 1, timestamp |-> now,
                       precision |-> frame[t].precision,
                       expected |-> frame[t].expected_tools,
                       actual |-> frame[t].actual_tools])]
    /\ appended' = [appended EXCEPT !["precision_scores"] = @ + 1]
    /\ Goto(t, "cp_trim")
    /\ UNCHANGED <<frame, ret, apiVars, clockVars, rateVars, lock, completed, mcalls>>

\* if len(precision_scores) > 50: precision_scores = precision_scores[-50:]
CpTrim(t) ==
    /\ pc[t] = "cp_trim"
    /\ metrics' = [metrics EXCEPT !.precision_scores = Trim(@, PRECISION_SCORES_CAP)]
    /\ Goto(t, "cp_unlock")
    /\ UNCHANGED <<frame, ret, apiVars, clockVars, rateVars, lock, appended, completed, mcalls>>

\* the with block ends; return precision
CpUnlock(t) ==
    /\ pc[t] = "cp_unlock"
    /\ lock' = NoThread
    /\ Return(t, [kind |-> "precision", value |-> frame[t].precision,
                  expected |-> frame[t].expected_tools, actual |-> frame[t].actual_tools])
    /\ UNCHANGED <<apiVars, clockVars, rateVars, metrics, appended, completed, mcalls>>

CpStep(t) == CpLock(t) \/ CpAppend(t) \/ CpTrim(t) \/ CpUnlock(t)

\* ----------------------------------------------- AgentMetrics.check_consistency
\* _similarity: the Jaccard index of the two word sets, 0.0 when one of them is empty
Similarity(str1, str2) ==
    LET words1 == WordSet(str1)
        words2 == WordSet(str2)
    IN  IF words1 = {} \/ words2 = {} THEN Frac(0, 1)
        ELSE Frac(Cardinality(words1 \cap words2), Cardinality(words1 \cup words2))

\* a count taken after the append: the new entry is compared with itself too
SimilarCountWithSelf(query, checks) ==
    Cardinality({i \in 1 .. Len(checks) + 1 :
                    FracGt(Similarity(Lower(query),
                                      Lower(Append(checks, [query |-> Slice(query, 200)])[i].query)),
                           7, 10)})

\* the checks whose query is similar to the new one:
\* self._similarity(query.lower(), check['query'].lower()) > 0.7
SimilarCount(query, checks) ==
    Cardinality({i \in 1 .. Len(checks) :
                    FracGt(Similarity(Lower(query), Lower(checks[i].query)), 7, 10)})

ConsistencyArgs(query, response) ==
    [op |-> "check_consistency", query |-> query, response |-> response]

CcCall(t, args) ==
    /\ mcalls' = mcalls + 1
    /\ frame' = [frame EXCEPT ![t] = args]
    /\ ret' = [ret EXCEPT ![t] = NoRet]
    /\ Goto(t, "cc_lock")
    /\ UNCHANGED <<clockVars, rateVars, metrics, lock, appended, completed>>

CcBegin(t, args) == pc[t] = "idle" /\ CcCall(t, args) /\ UNCHANGED apiVars

\* with self.lock:
CcLock(t) ==
    /\ pc[t] = "cc_lock"
    /\ Acquire(t, "cc_append")
    /\ UNCHANGED <<frame, ret, apiVars, clockVars, rateVars, metrics, appended, completed, mcalls>>

\* the loop over consistency_checks, then
\* consistency_checks.append({timestamp, query[:200], response[:200], similar_previous})
CcAppend(t) ==
    /\ pc[t] = "cc_append"
    /\ metrics' = [metrics EXCEPT !.consistency_checks = Append(@,
                      [seq |-> appended["consistency_checks"] + 1, timestamp |-> now,
                       query |-> Slice(frame[t].query, 200),
                       response |-> Slice(frame[t].response, 200),
                       similar_previous |->
                           SimilarCount(frame[t].query, metrics.consistency_checks)])]
    /\ appended' = [appended EXCEPT !["consistency_checks"] = @ + 1]
    /\ Goto(t, "cc_trim")
    /\ UNCHANGED <<frame, ret, apiVars, clockVars, rateVars, lock, completed, mcalls>>

\* the trim of check_consistency applied to latency_history
CcTrimWrongList(t) ==
    /\ pc[t] = "cc_trim"
    /\ metrics' = [metrics EXCEPT !.latency_history = Trim(@, CONSISTENCY_CHECKS_CAP)]
    /\ Goto(t, "cc_unlock")
    /\ UNCHANGED <<frame, ret, apiVars, clockVars, rateVars, lock, appended, completed, mcalls>>

\* if len(consistency_checks) > 30: consistency_checks = consistency_checks[-30:]
CcTrim(t) ==
    /\ pc[t] = "cc_trim"
    /\ metrics' = [metrics EXCEPT !.consistency_checks = Trim(@, CONSISTENCY_CHECKS_CAP)]
    /\ Goto(t, "cc_unlock")
    /\ UNCHANGED <<frame, ret, apiVars, clockVars, rateVars, lock, appended, completed, mcalls>>

\* the with block ends
CcUnlock(t) ==
    /\ pc[t] = "cc_unlock"
    /\ lock' = NoThread
    /\ Return(t, [kind |-> "checked"])
    /\ UNCHANGED <<apiVars, clockVars, rateVars, metrics, appended, completed, mcalls>>

CcStep(t) == CcLock(t) \/ CcAppend(t) \/ CcTrim(t) \/ CcUnlock(t)

\* ----------------------------------------------------- AgentMetrics.get_summary
RECURSIVE SumOf(_, _)
SumOf(f, keys) ==
    IF keys = {} THEN 0
    ELSE LET k == CHOOSE x \in keys : TRUE IN f[k] + SumOf(f, keys \ {k})

\* Numbers.  A latency is a whole number of ticks, TicksPerMillisecond to the
\* millisecond (so no latency lies half-way between two milliseconds).
\* A rounded value is the whole number of its last decimal place: round(x, 3) of
\* seconds is in milliseconds, round(x, 2) of a percentage in hundredths of a percent,
\* round(x, 3) of a precision in thousandths.
TicksPerMillisecond == 3

\* round(num / den) for num >= 0, den > 0: to the nearest whole number, a tie to the
\* even one
RoundHalfEven(num, den) ==
    LET q == num \div den
        r == num % den
    IN  IF 2 * r < den THEN q
        ELSE IF 2 * r > den THEN q + 1
        ELSE IF q % 2 = 0 THEN q ELSE q + 1

\* sorted(latencies)
Sorted(q) == SortSeq(q, LAMBDA x, y : x < y)

\* the nearest-rank index ceil(n * pct / 100) - 1
PercentileIndexNearestRank(n, pct) == ((n * pct + 99) \div 100) - 1

\* int(len(sorted_latencies) * 0.95), int(len(sorted_latencies) * 0.99)
PercentileIndex(n, pct) == (n * pct) \div 100

\* sorted_latencies[idx] if idx < len(sorted_latencies) else sorted_latencies[-1]
\* (Python indexes from 0), 0 for no latencies; in ticks
Percentile(sorted_latencies, pct) ==
    IF sorted_latencies = <<>> THEN 0
    ELSE LET idx == PercentileIndex(Len(sorted_latencies), pct)
         IN  IF idx < Len(sorted_latencies) THEN sorted_latencies[idx + 1]
             ELSE sorted_latencies[Len(sorted_latencies)]

\* sum(p['precision'] for p in precision_scores) as one fraction, and the sums of
\* one field of the entries of a list; a list is summed by halves
RECURSIVE GCD(_, _)
GCD(x, y) == IF y = 0 THEN x ELSE GCD(y, x % y)

\* on the least common denominator
AddFrac(x, y) ==
    LET g == GCD(x.den, y.den)
    IN  Frac(x.num * (y.den \div g) + y.num * (x.den \div g), (x.den \div g) * y.den)

RECURSIVE SumFracBetween(_, _, _)
SumFracBetween(q, lo, hi) ==
    IF lo > hi THEN Frac(0, 1)
    ELSE IF lo = hi THEN q[lo]
    ELSE LET mid == (lo + hi) \div 2
         IN  AddFrac(SumFracBetween(q, lo, mid), SumFracBetween(q, mid + 1, hi))

SumFrac(q) == SumFracBetween(q, 1, Len(q))

RECURSIVE SumFieldBetween(_, _, _, _)
SumFieldBetween(q, field, lo, hi) ==
    IF lo > hi THEN 0
    ELSE IF lo = hi THEN q[lo][field]
    ELSE LET mid == (lo + hi) \div 2
         IN  SumFieldBetween(q, field, lo, mid) + SumFieldBetween(q, field, mid + 1, hi)

SumField(q, field) == SumFieldBetween(q, field, 1, Len(q))

\* x / y if y > 0 else 0, rounded to 2 decimals: a fraction, not a percentage
RateAsFraction(x, y) == IF y > 0 THEN RoundHalfEven(x * 100, y) ELSE 0

\* x / y * 100 if y > 0 else 0, rounded to 2 decimals: in hundredths of a percent
Rate(x, y) == IF y > 0 THEN RoundHalfEven(x * 100 * 100, y) ELSE 0

\* an average taken over the retained window only, rounded to the millisecond
AvgLatencyRetained(m) ==
    IF m.latency_history # <<>>
    THEN RoundHalfEven(SumField(m.latency_history, "latency"),
                       Len(m.latency_history) * TicksPerMillisecond)
    ELSE 0

\* round(total_latency / total_requests if total_requests > 0 else 0, 3): in
\* milliseconds
AvgLatency(m) ==
    IF m.total_requests > 0
    THEN RoundHalfEven(m.total_latency, m.total_requests * TicksPerMillisecond)
    ELSE 0

\* the mean of the precision scores, in thousandths
MeanPrecision(scores) ==
    LET total == SumFrac([i \in 1 .. Len(scores) |-> scores[i].precision])
    IN  RoundHalfEven(total.num * 1000, total.den * Len(scores))

\* an average that takes no score for a perfect score, as calculate_precision takes
\* no expected tool
AvgPrecisionOneWhenEmpty(m) ==
    IF m.precision_scores # <<>> THEN MeanPrecision(m.precision_scores) ELSE 1000

\* round(sum(p['precision'] for p in precision_scores) / len(precision_scores)
\* if precision_scores else 0, 3): in thousandths
AvgPrecision(m) ==
    IF m.precision_scores # <<>> THEN MeanPrecision(m.precision_scores) ELSE 0

\* the dictionary get_summary returns; observed is what the stored state was when it
\* was read (the lengths of the stored sequences and the numbers ever appended)
Summary(m, app) ==
    LET sorted_latencies == Sorted([i \in 1 .. Len(m.latency_history) |->
                                       m.latency_history[i].latency])
    IN
    [kind |-> "summary",
     total_requests |-> m.total_requests,
     successful_requests |-> m.successful_requests,
     failed_requests |-> m.failed_requests,
     success_rate |-> Rate(m.successful_requests, m.total_requests),
     error_rate |-> Rate(m.failed_requests, m.total_requests),
     avg_latency |-> AvgLatency(m),
     p95_latency |-> RoundHalfEven(Percentile(sorted_latencies, 95), TicksPerMillisecond),
     p99_latency |-> RoundHalfEven(Percentile(sorted_latencies, 99), TicksPerMillisecond),
     avg_precision |-> AvgPrecision(m),
     avg_cpu_percent |-> IF m.resource_usage # <<>>
                         THEN RoundHalfEven(SumField(m.resource_usage, "cpu_percent") * 100,
                                            Len(m.resource_usage))
                         ELSE 0,
     avg_memory_percent |-> IF m.resource_usage # <<>>
                            THEN RoundHalfEven(
                                     SumField(m.resource_usage, "memory_percent") * 100,
                                     Len(m.resource_usage))
                            ELSE 0,
     latency_history |-> Last(m.latency_history, 30),
     precision_history |-> Last(m.precision_scores, 20),
     tool_usage |-> m.tool_calls,
     total_tool_calls |-> SumOf(m.tool_calls, ToolNames),
     recent_errors |-> Last(m.errors, 10),
     error_count |-> Len(m.errors),
     resource_usage |-> Last(m.resource_usage, 20),
     execution_traces |-> Last(m.execution_traces, 10),
     consistency_checks |-> Len(m.consistency_checks),
     generated_at |-> now,
     observed |-> [appended |-> app,
                   counters |-> <<m.total_requests, m.successful_requests,
                                  m.failed_requests, m.total_latency, m.tool_calls>>,
                   stored |-> [latency_history |-> Len(m.latency_history),
                               precision_scores |-> Len(m.precision_scores),
                               resource_usage |-> Len(m.resource_usage),
                               execution_traces |-> Len(m.execution_traces),
                               consistency_checks |-> Len(m.consistency_checks)]]]

GsCall(t) ==
    /\ mcalls' = mcalls + 1
    /\ frame' = [frame EXCEPT ![t] = [op |-> "get_summary"]]
    /\ ret' = [ret EXCEPT ![t] = NoRet]
    /\ Goto(t, "gs_lock")
    /\ UNCHANGED <<clockVars, rateVars, metrics, lock, appended, completed>>

GsBegin(t) == pc[t] = "idle" /\ GsCall(t) /\ UNCHANGED apiVars

\* with self.lock:
GsLock(t) ==
    /\ pc[t] = "gs_lock"
    /\ Acquire(t, "gs_return")
    /\ UNCHANGED <<frame, ret, apiVars, clockVars, rateVars, metrics, appended, completed, mcalls>>

\* what is left of self.metrics had get_summary counted itself as a request
ReadAndCount(m) == [m EXCEPT !.total_requests = @ + 1]

\* a summary that starts a new reporting period
ReadAndReset(m) == FreshMetrics

\* what is left of self.metrics by lines 238-308, which only read it: the lists are
\* reported by slices x[-30:], which are new lists, and tool_calls by a copy
ReadOnly(m) == m

\* the summary is computed and returned; the with block ends
GsReturn(t) ==
    /\ pc[t] = "gs_return"
    /\ lock' = NoThread
    /\ metrics' = ReadOnly(metrics)
    /\ Return(t, Summary(metrics, appended))
    /\ UNCHANGED <<apiVars, clockVars, rateVars, appended, completed, mcalls>>

GsStep(t) == GsLock(t) \/ GsReturn(t)

\* ------------------------------------------------- AgentMetrics.export_metrics
\* a query that calls get_summary first: summary = self.get_summary()
QueryBegin(t, op, next) ==
    /\ pc[t] = "idle"
    /\ req' = [req EXCEPT ![t] = [NoReq EXCEPT !.endpoint = op, !.resume = next]]
    /\ GsCall(t)
    /\ UNCHANGED ioVars

\* the query returns value, or raises (value is then what was raised)
QueryLeave(t, value) ==
    /\ ret' = [ret EXCEPT ![t] = value]
    /\ req' = [req EXCEPT ![t] = NoReq]
    /\ pc' = [pc EXCEPT ![t] = "idle"]
    /\ UNCHANGED <<frame, served, clockVars, rateVars, metricVars>>

QueryEnd(t, value) == QueryLeave(t, value) /\ UNCHANGED artifact

\* what leaves a query whose file could not be written
Raised(op) == [kind |-> "raised", op |-> op, line |-> "write"]

ExBegin(t) == QueryBegin(t, "export_metrics", "ex_write")

\* the keys of the dictionary get_summary returns, in the order it lists them
SummaryKeys ==
    <<"total_requests", "successful_requests", "failed_requests", "success_rate",
      "error_rate", "avg_latency", "p95_latency", "p99_latency", "latency_history",
      "avg_precision", "precision_history", "tool_usage", "total_tool_calls",
      "recent_errors", "error_count", "avg_cpu_percent", "avg_memory_percent",
      "resource_usage", "execution_traces", "consistency_checks", "generated_at">>

\* json.dump(summary, f, ensure_ascii=False, indent=2): the text of the document, one
\* member "key": value after the other
JsonDump(summary) ==
    [i \in 1 .. Len(SummaryKeys) |-> <<SummaryKeys[i], summary[SummaryKeys[i]]>>]

\* json.load of a document: the dictionary of its members
JsonLoad(text) ==
    [key \in {text[i][1] : i \in 1 .. Len(text)} |->
        text[CHOOSE i \in 1 .. Len(text) : text[i][1] = key][2]]

\* f.write from the start of a file that holds old: what lies beyond the end of the new
\* text stays
WriteOver(old, text) == text \o SubSeq(old, Len(text) + 1, Len(old))

\* Path(filepath).parent.mkdir(...); open(filepath, 'w'): the file is emptied, or the
\* file system refuses and the exception leaves export_metrics
ExWrite(t) ==
    /\ pc[t] = "ex_write"
    /\ \E opened \in BOOLEAN :
          IF opened
          THEN /\ artifact' = <<>>
               /\ Goto(t, "ex_dump")
               /\ UNCHANGED <<frame, ret, req, served, clockVars, rateVars, metricVars>>
          ELSE QueryEnd(t, Raised("export_metrics"))

\* json.dump(summary, f, ...) and the end of the with block: the document is written, or
\* the writing fails after none or one of its members and the exception leaves
ExDump(t) ==
    /\ pc[t] = "ex_dump"
    /\ \E written \in BOOLEAN :
          IF written
          THEN /\ artifact' = WriteOver(artifact, JsonDump(ret[t]))
               /\ Goto(t, "ex_return")
               /\ UNCHANGED <<frame, ret, req, served, clockVars, rateVars, metricVars>>
          ELSE /\ \E k \in {0, 1} :
                     artifact' = WriteOver(artifact, SubSeq(JsonDump(ret[t]), 1, k))
               /\ QueryLeave(t, Raised("export_metrics"))

\* logger.info(...); return summary
ExReturn(t) ==
    /\ pc[t] = "ex_return"
    /\ QueryEnd(t, [kind |-> "exported", summary |-> ret[t]])

ExStep(t) == ExWrite(t) \/ ExDump(t) \/ ExReturn(t)

\* ----------------------------------------- AgentMetrics.generate_analysis_report
\* the thresholds, in the units of the summary
\* (milliseconds, hundredths of a percent, thousandths)
LATENCY_CRITICAL == 5000
LATENCY_WARNING == 3000
ERROR_RATE_CRITICAL == 1000
ERROR_RATE_WARNING == 500
PRECISION_CRITICAL == 600
PRECISION_WARNING == 800
RESOURCE_WARNING == 8000

\* two ifs in place of if / elif: a high latency is reported twice
LatencyFindingsTwoIfs(avg_latency) ==
    (IF avg_latency > LATENCY_CRITICAL
     THEN <<[topic |-> "latency", level |-> "critical"]>> ELSE <<>>)
    \o (IF avg_latency > LATENCY_WARNING
        THEN <<[topic |-> "latency", level |-> "warning"]>>
        ELSE <<[topic |-> "latency", level |-> "ok"]>>)

\* if summary['avg_latency'] > 5.0 ... elif summary['avg_latency'] > 3.0 ... else ...
LatencyFindings(avg_latency) ==
    IF avg_latency > LATENCY_CRITICAL
    THEN <<[topic |-> "latency", level |-> "critical"]>>
    ELSE IF avg_latency > LATENCY_WARNING
    THEN <<[topic |-> "latency", level |-> "warning"]>>
    ELSE <<[topic |-> "latency", level |-> "ok"]>>

\* section 5 of the report, in the order the lines are appended
Findings(summary) ==
    LatencyFindings(summary.avg_latency)
    \o (IF summary.error_rate > ERROR_RATE_CRITICAL
        THEN <<[topic |-> "error_rate", level |-> "critical"]>>
        ELSE IF summary.error_rate > ERROR_RATE_WARNING
        THEN <<[topic |-> "error_rate", level |-> "warning"]>>
        ELSE <<[topic |-> "error_rate", level |-> "ok"]>>)
    \o (IF summary.avg_precision < PRECISION_CRITICAL
        THEN <<[topic |-> "precision", level |-> "critical"]>>
        ELSE IF summary.avg_precision < PRECISION_WARNING
        THEN <<[topic |-> "precision", level |-> "warning"]>>
        ELSE <<[topic |-> "precision", level |-> "ok"]>>)
    \o (IF summary.avg_cpu_percent > RESOURCE_WARNING
        THEN <<[topic |-> "cpu", level |-> "warning"]>> ELSE <<>>)
    \o (IF summary.avg_memory_percent > RESOURCE_WARNING
        THEN <<[topic |-> "memory", level |-> "warning"]>> ELSE <<>>)

GrBegin(t) == QueryBegin(t, "generate_analysis_report", "gr_report")

\* the report is built from the summary and written to LOG_DIR: the text is returned,
\* or the file system refuses and the exception leaves generate_analysis_report
GrReport(t) ==
    /\ pc[t] = "gr_report"
    /\ \E written \in BOOLEAN :
          QueryEnd(t, IF written
                      THEN [kind |-> "report", findings |-> Findings(ret[t]),
                            summary |-> ret[t]]
                      ELSE Raised("generate_analysis_report"))


AllIdle == \A t \in Threads : pc[t] = "idle"

Init ==
    /\ pc = [t \in Threads |-> "idle"]
    /\ frame = [t \in Threads |-> NoFrame]
    /\ ret = [t \in Threads |-> NoRet]
    /\ now = 0
    /\ rate_limit_storage = [c \in Clients |-> Nil]
    /\ heap = [o \in ObjIds |-> <<>>]
    /\ security_log = <<>>
    /\ admitted = [c \in Clients |-> <<>>]
    /\ begun = 0
    /\ ticks = 0
    /\ req = [t \in Threads |-> NoReq]
    /\ served = 0
    /\ artifact = NoFile
    /\ metrics = FreshMetrics
    /\ lock = NoThread
    /\ appended = NoneAppended
    /\ completed = <<>>
    /\ mcalls = 0

\* sequential calls of check_rate_limit: one call at a time, the clock advances between calls
NextRate ==
    \/ CrlBegin(MainThread, FirstClient)
    \/ CrlStep(MainThread)
    \/ \E d \in Jumps : AllIdle /\ Tick(d)

SpecRate == Init /\ [][NextRate]_vars

\* concurrent calls of check_rate_limit from the server's threads.  The run starts with
\* a fresh SecurityManager, or after MAX_REQUESTS - 1 calls of the first client at time 0.
WarmedUp(k) == [i \in 1 .. k |-> 0]
\* the list object the k-th of these calls leaves in the storage
WarmedUpList(k) == 1 + (k % 2)

WarmRate(k) ==
    /\ pc = [t \in Threads |-> "idle"]
    /\ frame = [t \in Threads |-> NoFrame]
    /\ ret = [t \in Threads |->
                IF t = MainThread /\ k > 0
                THEN [kind |-> "crl", ip |-> FirstClient, at |-> 0, allowed |-> TRUE,
                      remaining |-> MAX_REQUESTS - k - 1]
                ELSE NoRet]
    /\ now = 0
    /\ rate_limit_storage = [c \in Clients |->
                               IF c = FirstClient /\ k > 0 THEN WarmedUpList(k) ELSE Nil]
    /\ heap = [o \in ObjIds |-> IF o = WarmedUpList(k) THEN WarmedUp(k) ELSE <<>>]
    /\ security_log = <<>>
    /\ admitted = [c \in Clients |-> IF c = FirstClient THEN WarmedUp(k) ELSE <<>>]
    /\ begun = 0
    /\ ticks = 0
    /\ req = [t \in Threads |-> NoReq]
    /\ served = 0
    /\ artifact = NoFile
    /\ metrics = FreshMetrics
    /\ lock = NoThread
    /\ appended = NoneAppended
    /\ completed = <<>>
    /\ mcalls = 0

InitRateConc == WarmRate(0) \/ WarmRate(MAX_REQUESTS - 1)

NextRateConc ==
    \/ \E t \in Threads, c \in Clients :
          /\ begun < MaxConcCalls
          /\ CrlBegin(t, c)
    \/ \E t \in Threads : CrlStep(t)
    \/ \E d \in Jumps : Tick(d)

SpecRateConc == InitRateConc /\ [][NextRateConc]_vars

\* calls of check_rate_limit made one after the other, for either client and from
\* either thread, the clock advancing between the calls; from a fresh SecurityManager
\* or after MAX_REQUESTS - 1 calls of the first client at time 0
MaxSeqCalls == 4
NextRateSeq ==
    \/ \E t \in Threads, c \in Clients :
          /\ AllIdle
          /\ begun < MaxSeqCalls
          /\ CrlBegin(t, c)
    \/ \E t \in Threads : CrlStep(t)
    \/ \E d \in Jumps : AllIdle /\ Tick(d)

SpecRateSeq == InitRateConc /\ [][NextRateSeq]_vars


\* ------------------------------------------------- calls of AgentMetrics
T1 == "buscar_productos"
T2 == "generar_carro_optimizado"
Latencies == {1, 3}
ToolLists == {<<>>, <<T1>>, <<T1, T2, T1>>}

\* record_request calls: every outcome, latency and tool list with well-formed
\* arguments, and each argument list on which a line of the method raises
RecordInputs ==
    {RecordArgs(s, l, tl, "none") : s \in BOOLEAN, l \in Latencies, tl \in ToolLists}
    \cup {RecordArgs(TRUE, 1, <<T1>>, f) : f \in {"format", "tools"}}
    \cup {RecordArgs(FALSE, 1, <<T1>>, f) : f \in {"entry", "tools"}}

TraceInputs == {TraceArgs(<<Word("Carro"), Word("vegano")>>, <<Word("parrafo")>>, <<T1>>, 1)}

PrecisionInputs ==
    {PrecisionArgs(<<>>, <<T1>>), PrecisionArgs(<<T1, T2>>, <<T1>>), PrecisionArgs(<<T1>>, <<T1>>)}

\* queries of two words, of one word, of one word longer than the 200 characters that
\* are stored, and the empty query
ConsistencyInputs ==
    {ConsistencyArgs(<<Word("Carro"), Word("vegano")>>, <<Word("parrafo")>>),
     ConsistencyArgs(<<Word("carro")>>, <<Word("vegano")>>),
     ConsistencyArgs(<<Word("parrafo")>>, <<Word("vegano")>>),
     ConsistencyArgs(<<>>, <<Word("vegano")>>)}

\* a thread calls a method of the metrics system
MetricsCall(t, records, traces, precisions, consistencies) ==
    /\ mcalls < MaxMetricCalls
    /\ \/ \E a \in records : RrBegin(t, a)
       \/ \E a \in traces : RtBegin(t, a)
       \/ \E a \in precisions : CpBegin(t, a)
       \/ \E a \in consistencies : CcBegin(t, a)
       \/ GsBegin(t)

MetricsStep(t) == RrStep(t) \/ RtStep(t) \/ CpStep(t) \/ CcStep(t) \/ GsStep(t)

\* the threads call the metrics system concurrently, from a fresh AgentMetrics
NextMetrics ==
    \E t \in Threads :
        \/ MetricsCall(t, RecordInputs, TraceInputs, PrecisionInputs, ConsistencyInputs)
        \/ MetricsStep(t)

SpecMetrics == Init /\ [][NextMetrics]_vars

\* the metrics system after WarmCalls rounds of record_request, record_trace,
\* calculate_precision and check_consistency made one after the other by MainThread,
\* each with the same well-formed arguments: every bounded sequence is full
WarmRequest == <<Word("carro")>>
WarmResponse == <<Word("vegano")>>
MinOf(a, b) == IF a < b THEN a ELSE b

WarmMetrics(k) ==
    [total_requests |-> k, successful_requests |-> k, failed_requests |-> 0,
     total_latency |-> k, tool_calls |-> [x \in ToolNames |-> IF x = T1 THEN k ELSE 0],
     errors |-> <<>>,
     latency_history |-> Trim([i \in 1 .. k |->
         [seq |-> i, timestamp |-> 0, latency |-> 1, success |-> TRUE]], LATENCY_HISTORY_CAP),
     precision_scores |-> Trim([i \in 1 .. k |->
         [seq |-> i, timestamp |-> 0, precision |-> Precision(<<T1>>, <<T1>>),
          expected |-> <<T1>>, actual |-> <<T1>>]], PRECISION_SCORES_CAP),
     resource_usage |-> Trim([i \in 1 .. k |->
         [seq |-> i, timestamp |-> 0, cpu_percent |-> 10, memory_percent |-> 40,
          memory_used_mb |-> 512]], RESOURCE_USAGE_CAP),
     execution_traces |-> Trim([i \in 1 .. k |->
         [seq |-> i, timestamp |-> 0, request |-> Slice(WarmRequest, 300),
          response |-> Slice(WarmResponse, 500), tools_used |-> <<T1>>,
          latency |-> 1, success |-> TRUE]], EXECUTION_TRACES_CAP),
     consistency_checks |-> Trim([i \in 1 .. k |->
         [seq |-> i, timestamp |-> 0, query |-> Slice(WarmRequest, 200),
          response |-> Slice(WarmResponse, 200),
          similar_previous |-> MinOf(i - 1, CONSISTENCY_CHECKS_CAP)]],
         CONSISTENCY_CHECKS_CAP)]

InitCaps ==
    /\ pc = [t \in Threads |-> "idle"]
    /\ frame = [t \in Threads |-> NoFrame]
    /\ ret = [t \in Threads |-> IF t = MainThread THEN [kind |-> "checked"] ELSE NoRet]
    /\ now = 0
    /\ rate_limit_storage = [c \in Clients |-> Nil]
    /\ heap = [o \in ObjIds |-> <<>>]
    /\ security_log = <<>>
    /\ admitted = [c \in Clients |-> <<>>]
    /\ begun = 0
    /\ ticks = 0
    /\ req = [t \in Threads |-> NoReq]
    /\ served = 0
    /\ artifact = NoFile
    /\ metrics = WarmMetrics(WarmCalls)
    /\ lock = NoThread
    /\ appended = [n \in SequenceNames |-> IF n = "errors" THEN 0 ELSE WarmCalls]
    /\ completed = <<>>
    /\ mcalls = 0

\* the threads call the metrics system concurrently when its sequences are full
NextCaps ==
    \E t \in Threads :
        \/ MetricsCall(t, {RecordArgs(TRUE, 1, <<T1>>, f) : f \in {"none", "format", "tools"}}
                           \cup {RecordArgs(FALSE, 1, <<T1>>, f) :
                                    f \in {"none", "entry", "tools"}},
                       TraceInputs,
                       {PrecisionArgs(<<T1, T2>>, <<T1>>)},
                       {ConsistencyArgs(<<Word("Carro")>>, <<Word("vegano")>>)})
        \/ MetricsStep(t)

SpecCaps == InitCaps /\ [][NextCaps]_vars

\* calls of calculate_precision, one after the other, over every pair of tool lists of
\* up to MaxToolListLen names (repeated names included)
AllToolLists == UNION {[1 .. n -> ToolNames] : n \in 0 .. MaxToolListLen}

NextPrecision ==
    \/ \E e \in AllToolLists, a \in AllToolLists :
          /\ mcalls < MaxPrecisionCalls
          /\ CpBegin(MainThread, PrecisionArgs(e, a))
    \/ CpStep(MainThread)

SpecPrecision == Init /\ [][NextPrecision]_vars

\* get_summary over samples of latencies: the metrics system after record_request was
\* called once for each latency of a sample, one call after the other, each a success
\* without tools whose resource sampling succeeded
Seconds(n) == n * 1000 * TicksPerMillisecond

\* 1, 2, ..., n seconds; the same from the last to the first; and latencies that are
\* not whole milliseconds
LatencySamples ==
    UNION {{[i \in 1 .. n |-> Seconds(i)],
            [i \in 1 .. n |-> Seconds(n + 1 - i)],
            [i \in 1 .. n |-> Seconds((7 * i) % 5) + i]} :
               n \in (0 .. 3) \cup {20, 21}
                      \cup {LATENCY_HISTORY_CAP - 1, LATENCY_HISTORY_CAP,
                            LATENCY_HISTORY_CAP + 1}}

\* of n requests, those that fail when every third (fourth, ...) does; none for 0
Failing(n, every) == {i \in 1 .. n : every > 0 /\ i % every = 0}

\* the metrics system after record_request was called once for each latency (the calls
\* of failing failed), psutil reporting sample each time, and then calculate_precision
\* once for each pair of scored: the calls made one after the other
AfterCalls(latencies, failing, sample, scored) ==
    LET n == Len(latencies)
        call == [i \in 1 .. n |-> RecordArgs(i \notin failing, latencies[i], <<>>, "none")]
        history == [i \in 1 .. n |->
                       [seq |-> i, timestamp |-> 0, latency |-> latencies[i],
                        success |-> i \notin failing]]
        failed == Cardinality(failing)
        nth == [k \in 1 .. failed |->
                   CHOOSE i \in failing : Cardinality({j \in failing : j <= i}) = k]
    IN  [FreshMetrics EXCEPT
            !.total_requests = n, !.successful_requests = n - failed,
            !.failed_requests = failed,
            !.errors = [k \in 1 .. failed |->
                [seq |-> k, timestamp |-> 0, error |-> call[nth[k]].error,
                 tools_used |-> call[nth[k]].tools_used,
                 request |-> Slice(call[nth[k]].request_text, 200)]],
            !.total_latency = SumField(history, "latency"),
            !.latency_history = Trim(history, LATENCY_HISTORY_CAP),
            !.resource_usage = Trim([i \in 1 .. n |->
                [seq |-> i, timestamp |-> 0, cpu_percent |-> sample.cpu_percent,
                 memory_percent |-> sample.memory_percent,
                 memory_used_mb |-> sample.memory_used_mb]], RESOURCE_USAGE_CAP),
            !.precision_scores = Trim([i \in 1 .. Len(scored) |->
                [seq |-> i, timestamp |-> 0,
                 precision |-> Precision(scored[i][1], scored[i][2]),
                 expected |-> scored[i][1], actual |-> scored[i][2]]],
                PRECISION_SCORES_CAP)]

InitAfter(workloads) ==
    /\ pc = [t \in Threads |-> "idle"]
    /\ frame = [t \in Threads |-> NoFrame]
    /\ ret = [t \in Threads |-> NoRet]
    /\ now = 0
    /\ rate_limit_storage = [c \in Clients |-> Nil]
    /\ heap = [o \in ObjIds |-> <<>>]
    /\ security_log = <<>>
    /\ admitted = [c \in Clients |-> <<>>]
    /\ begun = 0
    /\ ticks = 0
    /\ req = [t \in Threads |-> NoReq]
    /\ served = 0
    /\ artifact = NoFile
    /\ \E w \in workloads :
          /\ metrics = AfterCalls(w.latencies, w.failing, w.sample, w.scored)
          /\ appended = [n \in SequenceNames |->
                CASE n \in {"latency_history", "resource_usage"} -> Len(w.latencies)
                  [] n = "errors" -> Cardinality(w.failing)
                  [] n = "precision_scores" -> Len(w.scored)
                  [] OTHER -> 0]
    /\ lock = NoThread
    /\ completed = <<>>
    /\ mcalls = 0

\* the threads read the summary concurrently
NextSummary ==
    \E t \in Threads :
        \/ mcalls < MaxSummaryCalls /\ GsBegin(t)
        \/ GsStep(t)

SpecSummary ==
    /\ InitAfter({[latencies |-> latencies, failing |-> Failing(Len(latencies), every),
                   sample |-> sample, scored |-> <<>>] :
                     latencies \in LatencySamples, every \in {0, 3}, sample \in Samples})
    /\ [][NextSummary]_vars

\* generate_analysis_report over summaries on both sides of every threshold: requests
\* of one latency each, of which every third, tenth, fifteenth, twentieth or none
\* failed, precisions of 1 and 0 in every proportion of five (or none scored), and
\* resource samples of 80 and 81 percent
ReportWorkloads ==
    {[latencies |-> [i \in 1 .. n |-> latency], failing |-> Failing(n, every),
      sample |-> sample, scored |-> scored] :
        n \in {10, 15, 20},
        latency \in {Seconds(2), Seconds(3), Seconds(3) + 1,
                     Seconds(3) + TicksPerMillisecond,
                     Seconds(5), Seconds(5) + 1, Seconds(5) + TicksPerMillisecond},
        every \in {0, 3, 10, 15, 20},
        sample \in Samples
                   \cup {[cpu_percent |-> 80, memory_percent |-> 81, memory_used_mb |-> 512],
                         [cpu_percent |-> 81, memory_percent |-> 80, memory_used_mb |-> 512]},
        scored \in {<<>>}
                   \cup {[i \in 1 .. 5 |-> IF i <= k THEN <<<<T1>>, <<T1>>>>
                                          ELSE <<<<T1>>, <<T2>>>>] : k \in 0 .. 5}}

\* the threads ask for the report concurrently
NextReport ==
    \E t \in Threads :
        \/ mcalls < MaxReportCalls /\ GrBegin(t)
        \/ GsStep(t)
        \/ GrReport(t)

SpecReport == InitAfter(ReportWorkloads) /\ [][NextReport]_vars

\* the threads call the metrics system and its queries concurrently, from a fresh
\* AgentMetrics
NextQueries ==
    \E t \in Threads :
        \/ MetricsCall(t, RecordInputs, TraceInputs, PrecisionInputs, ConsistencyInputs)
        \/ mcalls < MaxMetricCalls /\ ExBegin(t)
        \/ mcalls < MaxMetricCalls /\ GrBegin(t)
        \/ MetricsStep(t)
        \/ ExStep(t)
        \/ GrReport(t)

SpecQueries == Init /\ [][NextQueries]_vars

\* the threads record requests of very different latencies and take summaries
\* concurrently when the latency history is full
MaxLatencyCalls == 3
LatencyRecordInputs ==
    {RecordArgs(TRUE, Seconds(100), <<T1>>, "none"), RecordArgs(FALSE, 2, <<>>, "none"),
     RecordArgs(TRUE, Seconds(100), <<T1>>, "format"),
     RecordArgs(TRUE, Seconds(100), <<T1>>, "tools")}
NextLatency ==
    \E t \in Threads :
        \/ mcalls < MaxLatencyCalls /\ \E a \in LatencyRecordInputs : RrBegin(t, a)
        \/ mcalls < MaxLatencyCalls /\ GsBegin(t)
        \/ RrStep(t)
        \/ GsStep(t)

SpecLatency == InitCaps /\ [][NextLatency]_vars

\* the threads record requests with tools and take summaries concurrently, from a
\* fresh AgentMetrics: tool lists with repeated names, none, and one whose second
\* element is not hashable
MaxToolCalls == 3
ToolRecordInputs ==
    {RecordArgs(TRUE, 1, <<T1, T2, T1>>, "none"), RecordArgs(FALSE, 1, <<>>, "none"),
     RecordArgs(TRUE, 1, <<T2>>, "tools"), RecordArgs(TRUE, 1, <<T1, Unhashable>>, "none")}
NextTools ==
    \E t \in Threads :
        \/ mcalls < MaxToolCalls /\ \E a \in ToolRecordInputs : RrBegin(t, a)
        \/ mcalls < MaxToolCalls /\ GsBegin(t)
        \/ RrStep(t)
        \/ GsStep(t)

SpecTools == Init /\ [][NextTools]_vars

\* the threads call every method of the metrics system concurrently, with arguments
\* on which the methods return and arguments on which they raise, and every thread
\* that can take a step eventually takes one
MaxLiveCalls == 2
LiveRecordInputs ==
    {RecordArgs(TRUE, 1, <<T1>>, f) : f \in {"none", "format", "tools"}}
    \cup {RecordArgs(FALSE, 1, <<>>, "entry"), RecordArgs(TRUE, 1, <<T1, Unhashable>>, "none")}
LiveTraceInputs ==
    {TraceArgs(<<Word("Carro")>>, <<Word("parrafo")>>, <<T1>>, 1),
     [TraceArgs(<<Word("Carro")>>, <<Word("parrafo")>>, <<T1>>, 1) EXCEPT !.fault = "response"]}
ThreadStep(t) == MetricsStep(t) \/ ExStep(t) \/ GrReport(t)
NextLive ==
    \E t \in Threads :
        \/ /\ mcalls < MaxLiveCalls
           /\ \/ \E a \in LiveRecordInputs : RrBegin(t, a)
              \/ \E a \in LiveTraceInputs : RtBegin(t, a)
              \/ \E a \in PrecisionInputs : CpBegin(t, a)
              \/ CcBegin(t, ConsistencyArgs(<<Word("carro")>>, <<Word("vegano")>>))
              \/ GsBegin(t)
              \/ ExBegin(t)
              \/ GrBegin(t)
        \/ ThreadStep(t)

SpecLive == Init /\ [][NextLive]_vars /\ \A t \in Threads : WF_vars(ThreadStep(t))

\* the threads score tool selections and ask for the report concurrently, from a fresh
\* AgentMetrics or from one whose sequences are full: selections that are right, half
\* right and wrong, and one with no expected tool
MaxMeanCalls == 5
MeanPrecisionInputs == PrecisionInputs \cup {PrecisionArgs(<<T1>>, <<T2>>)}
NextMean ==
    \E t \in Threads :
        \/ mcalls < MaxMeanCalls /\ \E a \in MeanPrecisionInputs : CpBegin(t, a)
        \/ mcalls < MaxMeanCalls /\ GrBegin(t)
        \/ CpStep(t)
        \/ GsStep(t)
        \/ GrReport(t)

SpecMean == (Init \/ InitCaps) /\ [][NextMean]_vars

\* the threads export the metrics, take summaries and record requests concurrently while
\* the clock advances, from a fresh AgentMetrics and no file
MaxExportCalls == 3
ExportRecordInputs == {RecordArgs(TRUE, 1, <<T1>>, "none")}
NextExport ==
    \/ \E t \in Threads :
          \/ mcalls < MaxExportCalls /\ ExBegin(t)
          \/ mcalls < MaxExportCalls /\ GsBegin(t)
          \/ mcalls < MaxExportCalls /\ \E a \in ExportRecordInputs : RrBegin(t, a)
          \/ GsStep(t)
          \/ RrStep(t)
          \/ ExStep(t)
    \/ Tick(1)

SpecExport == Init /\ [][NextExport]_vars

\* ============================================================ request handling
\* the requests the server's threads handle (grozy_api.py): POST /api/chat and the
\* routes decorated with apply_rate_limit, of which GET /api/health stands for all
ChatRoute == "/api/chat"
HealthRoute == "/api/health"

NoResult == [success |-> FALSE, tools_used |-> <<>>, latency |-> 0, fault |-> "none"]
\* a response is a status and a JSON body; no handler has returned one yet
NoResponse == [status |-> 0, body |-> [success |-> FALSE, error |-> ""]]

Request(endpoint, client, message) ==
    [endpoint |-> endpoint, client |-> client, message |-> message,
     decision |-> "none", result |-> NoResult, resume |-> "idle",
     handled |-> 0, returned |-> NoResponse]

\* validate_input: the text is not empty, has 3 to 2000 characters and no SQL keyword
SqlWords == {"select"}
ValidateInput(txt) ==
    /\ txt # <<>>
    /\ TextLen(txt) <= MAX_MESSAGE_LENGTH
    /\ TextLen(txt) >= MIN_MESSAGE_LENGTH
    /\ \A i \in 1 .. Len(txt) : txt[i].w \notin SqlWords

\* sanitize_input: bleach.clean(text, tags=[], strip=True) removes the markup
HtmlTags == {"<b>"}
SanitizeInput(txt) == SelectSeq(Slice(txt, MAX_MESSAGE_LENGTH), LAMBDA x : x.w \notin HtmlTags)

\* jsonify(body), status: the response ends the request
RespondWith(t, status, body) ==
    /\ ret' = [ret EXCEPT ![t] = [kind |-> "response", endpoint |-> req[t].endpoint,
                                  client |-> req[t].client, decision |-> req[t].decision,
                                  status |-> status, success |-> body.success,
                                  body |-> body, result |-> req[t].result,
                                  handled |-> req[t].handled,
                                  returned |-> req[t].returned]]
    /\ req' = [req EXCEPT ![t] = NoReq]
    /\ frame' = [frame EXCEPT ![t] = NoFrame]
    /\ pc' = [pc EXCEPT ![t] = "idle"]

Respond(t, status, success) ==
    RespondWith(t, status, [success |-> success, error |-> IF success THEN "" ELSE "error"])

\* Flask dispatches POST /api/chat to chat(): the route has no decorator
ChatBegin(t, c, message) ==
    /\ pc[t] = "idle"
    /\ req' = [req EXCEPT ![t] = Request(ChatRoute, c, message)]
    /\ ret' = [ret EXCEPT ![t] = NoRet]
    /\ pc' = [pc EXCEPT ![t] = "chat_validate"]
    /\ served' = served + 1
    /\ UNCHANGED artifact
    /\ UNCHANGED <<frame, clockVars, rateVars, metricVars>>

\* validate_input fails: the event is logged and the answer is 400
ChatInvalid(t) ==
    /\ pc[t] = "chat_validate"
    /\ ~ValidateInput(req[t].message)
    /\ security_log' = LogSecurityEvent(security_log, "invalid_input", req[t].client)
    /\ Respond(t, 400, FALSE)
    /\ UNCHANGED <<clockVars, rate_limit_storage, heap, admitted, begun, ioVars, metricVars>>

\* the message is sanitized and the chat_request event logged
ChatSanitize(t) ==
    /\ pc[t] = "chat_validate"
    /\ ValidateInput(req[t].message)
    /\ req' = [req EXCEPT ![t].message = SanitizeInput(req[t].message)]
    /\ security_log' = LogSecurityEvent(security_log, "chat_request", req[t].client)
    /\ pc' = [pc EXCEPT ![t] = "chat_empty"]
    /\ UNCHANGED <<frame, ret, clockVars, rate_limit_storage, heap, admitted, begun, ioVars,
                   metricVars>>

\* if not user_message: 'Mensaje vacío', 400
ChatEmpty(t) ==
    /\ pc[t] = "chat_empty"
    /\ req[t].message = <<>>
    /\ Respond(t, 400, FALSE)
    /\ UNCHANGED <<clockVars, rateVars, ioVars, metricVars>>

\* result = invoke_agent_with_metrics(user_message, conversation_messages)
ChatInvoke(t) ==
    /\ pc[t] = "chat_empty"
    /\ req[t].message # <<>>
    /\ pc' = [pc EXCEPT ![t] = "invoke_agent"]
    /\ UNCHANGED <<frame, ret, req, clockVars, rateVars, ioVars, metricVars>>

\* what agent_executor.invoke can do: answer, having used some tools, or raise.
\* fault names what is malformed in an answer: "tools" a tool call whose name cannot
\* be counted, "response" a last message whose content cannot be sliced
AgentOutcomes ==
    {[success |-> TRUE, tools_used |-> tl, latency |-> 1, fault |-> "none"] :
        tl \in {<<>>, <<T1>>}}
    \cup {[success |-> FALSE, tools_used |-> <<>>, latency |-> 1, fault |-> "none"]}
    \cup {[success |-> TRUE, tools_used |-> <<T1>>, latency |-> 1, fault |-> f] :
              f \in {"tools", "response"}}
AgentResponse == <<Word("parrafo")>>

\* a trace recorded for every call, failed ones included
AfterRecordAlwaysTrace(success) == "invoke_trace"

\* what follows record_request in the finally block: if success: record_trace(...),
\* check_consistency(...); otherwise the return
AfterRecord(success) == IF success THEN "invoke_trace" ELSE "chat_respond"

\* invoke_agent_with_metrics: the agent runs, then finally: record_request(...)
InvokeAgent(t) ==
    /\ pc[t] = "invoke_agent"
    /\ \E out \in AgentOutcomes :
         /\ req' = [req EXCEPT ![t].result = out, ![t].resume = AfterRecord(out.success)]
         /\ RrCall(t, [RecordArgs(out.success, out.latency, out.tools_used,
                                   IF out.fault = "tools" THEN "tools" ELSE "none")
                          EXCEPT !.request_text = req[t].message])
    /\ UNCHANGED ioVars

\* if success: record_trace(...)
InvokeTrace(t) ==
    /\ pc[t] = "invoke_trace"
    /\ ret[t].kind # "raised"
    /\ req' = [req EXCEPT ![t].resume = "invoke_check"]
    /\ RtCall(t, [TraceArgs(req[t].message, AgentResponse, req[t].result.tools_used,
                            req[t].result.latency)
                      EXCEPT !.fault = IF req[t].result.fault = "response" THEN "response"
                                       ELSE "none"])
    /\ UNCHANGED ioVars

\* check_consistency(user_message, response_content)
InvokeCheck(t) ==
    /\ pc[t] = "invoke_check"
    /\ ret[t].kind # "raised"
    /\ req' = [req EXCEPT ![t].resume = "chat_respond"]
    /\ CcCall(t, ConsistencyArgs(req[t].message, AgentResponse))
    /\ UNCHANGED ioVars

\* return jsonify({... 'success': result['success']})
ChatRespond(t) ==
    /\ pc[t] = "chat_respond"
    /\ ret[t].kind # "raised"
    /\ Respond(t, 200, req[t].result.success)
    /\ UNCHANGED <<clockVars, rateVars, ioVars, metricVars>>

\* a metrics call raised inside invoke_agent_with_metrics' finally block: nothing
\* catches it there, it reaches chat's except Exception: jsonify({'error': ...}), 500
ChatExcept(t) ==
    /\ pc[t] \in {"invoke_trace", "invoke_check", "chat_respond"}
    /\ ret[t].kind = "raised"
    /\ Respond(t, 500, FALSE)
    /\ UNCHANGED <<clockVars, rateVars, ioVars, metricVars>>

ChatStep(t) ==
    \/ ChatInvalid(t)
    \/ ChatSanitize(t)
    \/ ChatEmpty(t)
    \/ ChatInvoke(t)
    \/ InvokeAgent(t)
    \/ InvokeTrace(t)
    \/ InvokeCheck(t)
    \/ ChatRespond(t)
    \/ ChatExcept(t)

\* apply_rate_limit's decorated_function: allowed, remaining = check_rate_limit(sm, ip)
ArlBegin(t, c) ==
    /\ pc[t] = "idle"
    /\ req' = [req EXCEPT ![t] = [Request(HealthRoute, c, <<>>) EXCEPT !.resume = "arl_allowed"]]
    /\ CrlCall(t, c)
    /\ served' = served + 1
    /\ UNCHANGED artifact

\* check_rate_limit has returned: allowed, remaining = ...
ArlAssign(t) ==
    /\ pc[t] = "arl_allowed"
    /\ req' = [req EXCEPT ![t].decision = IF ret[t].allowed THEN "allowed" ELSE "rejected"]
    /\ pc' = [pc EXCEPT ![t] = "arl_decided"]
    /\ UNCHANGED <<frame, ret, clockVars, rateVars, ioVars, metricVars>>

RefusesNone(decision) == FALSE

\* if not allowed
Refuses(decision) == decision = "rejected"

\* {'success': False, 'error': 'Límite de peticiones excedido. Intenta en 1 minuto.'}
RateLimitBody ==
    [success |-> FALSE, error |-> "Límite de peticiones excedido. Intenta en 1 minuto."]

\* what the decorated handlers return: get_metrics answers 200 with the summary, or 500
\* with the text of the exception it caught
HandlerResponses ==
    {[status |-> 200, body |-> [success |-> TRUE, error |-> ""]],
     [status |-> 500, body |-> [success |-> FALSE, error |-> "str(e)"]]}

\* if not allowed: return jsonify({...}), 429
ArlReject(t) ==
    /\ pc[t] = "arl_decided"
    /\ Refuses(req[t].decision)
    /\ RespondWith(t, 429, RateLimitBody)
    /\ UNCHANGED <<clockVars, rateVars, ioVars, metricVars>>

\* result = f(*args, **kwargs): the handler runs and returns its response
ArlHandler(t) ==
    /\ pc[t] = "arl_decided"
    /\ ~Refuses(req[t].decision)
    /\ \E response \in HandlerResponses :
          req' = [req EXCEPT ![t].handled = @ + 1, ![t].returned = response]
    /\ pc' = [pc EXCEPT ![t] = "arl_return"]
    /\ UNCHANGED <<frame, ret, clockVars, rateVars, ioVars, metricVars>>

\* return result
ArlReturn(t) ==
    /\ pc[t] = "arl_return"
    /\ RespondWith(t, req[t].returned.status, req[t].returned.body)
    /\ UNCHANGED <<clockVars, rateVars, ioVars, metricVars>>

ArlStep(t) == ArlAssign(t) \/ ArlReject(t) \/ ArlHandler(t) \/ ArlReturn(t)

\* the messages clients post
ChatMessages ==
    {<<Word("Carro"), Word("vegano")>>, <<Word("ab")>>, <<Word("select"), Word("carro")>>,
     <<Word("<b>")>>}

\* the server starts with a fresh SecurityManager, or after the first client has used
\* its MAX_REQUESTS requests at time 0
InitApi == WarmRate(0) \/ WarmRate(MAX_REQUESTS)

NextApi ==
    \/ \E t \in Threads, c \in Clients :
          /\ served < MaxServed
          /\ \/ \E m \in ChatMessages : ChatBegin(t, c, m)
             \/ ArlBegin(t, c)
    \/ \E t \in Threads :
          \/ ChatStep(t)
          \/ ArlStep(t)
          \/ CrlStep(t)
          \/ RrStep(t)
          \/ RtStep(t)
          \/ CcStep(t)

SpecApi == InitApi /\ [][NextApi]_vars

\* calls of check_rate_limit made one after the other when the security log is full or
\* two events short of it, and the first client has used its MAX_REQUESTS requests at
\* time 0: the log holds the events of earlier chat requests of both clients
MaxLogCalls == 4
WarmEvent(i) ==
    [type |-> IF i % 3 = 0 THEN "invalid_input" ELSE "chat_request",
     ip |-> AnonymizeIp(IF i % 2 = 0 THEN FirstClient ELSE CHOOSE c \in Clients : c # FirstClient),
     client |-> IF i % 2 = 0 THEN FirstClient ELSE CHOOSE c \in Clients : c # FirstClient]
WarmLog(k) == [i \in 1 .. k |-> WarmEvent(i)]

InitLog ==
    /\ pc = [t \in Threads |-> "idle"]
    /\ frame = [t \in Threads |-> NoFrame]
    /\ ret = [t \in Threads |-> NoRet]
    /\ now = 0
    /\ rate_limit_storage = [c \in Clients |->
                               IF c = FirstClient THEN WarmedUpList(MAX_REQUESTS) ELSE Nil]
    /\ heap = [o \in ObjIds |-> IF o = WarmedUpList(MAX_REQUESTS)
                                 THEN WarmedUp(MAX_REQUESTS) ELSE <<>>]
    /\ \E k \in {SECURITY_LOG_CAP - 2, SECURITY_LOG_CAP} : security_log = WarmLog(k)
    /\ admitted = [c \in Clients |-> IF c = FirstClient THEN WarmedUp(MAX_REQUESTS) ELSE <<>>]
    /\ begun = 0
    /\ ticks = 0
    /\ req = [t \in Threads |-> NoReq]
    /\ served = 0
    /\ artifact = NoFile
    /\ metrics = FreshMetrics
    /\ lock = NoThread
    /\ appended = NoneAppended
    /\ completed = <<>>
    /\ mcalls = 0

\* a call of check_rate_limit, however many were rejected before
CrlBeginAgain(t, c) ==
    /\ pc[t] = "idle"
    /\ begun < MaxLogCalls
    /\ CrlCall(t, c)
    /\ UNCHANGED apiVars

NextLog ==
    \/ \E t \in Threads, c \in Clients : AllIdle /\ CrlBeginAgain(t, c)
    \/ \E t \in Threads : CrlStep(t)

SpecLog == InitLog /\ [][NextLog]_vars

\* the chat requests alone, with summaries taken while they are handled, from a fresh
\* server
MaxInvokeCalls == 4
NextInvoke ==
    \E t \in Threads :
        \/ \E m \in ChatMessages : served < MaxServed /\ ChatBegin(t, FirstClient, m)
        \/ mcalls < MaxInvokeCalls /\ GsBegin(t)
        \/ ChatStep(t)
        \/ RrStep(t)
        \/ RtStep(t)
        \/ CcStep(t)
        \/ GsStep(t)

SpecInvoke == Init /\ [][NextInvoke]_vars

\* the requests to the decorated routes alone
NextLimited ==
    \E t \in Threads :
        \/ \E c \in Clients : served < MaxServed /\ ArlBegin(t, c)
        \/ ArlStep(t)
        \/ CrlStep(t)

SpecLimited == InitApi /\ [][NextLimited]_vars

\* ====================================================================== claims

\* the list rate_limit_storage holds for a client
Stored(c) == IF rate_limit_storage[c] = Nil THEN <<>> ELSE heap[rate_limit_storage[c]]
\* the rejections logged for a client
Rejections(c) == SelectSeq(security_log, LAMBDA e : e.type = "rate_limit_exceeded" /\ e.client = c)
\* the number of calls of a client that have returned (sequential calls)
Returned(c) == Len(admitted[c]) + Len(Rejections(c))
\* a call has returned to thread t
HasReturned(t) == pc[t] = "idle" /\ ret[t].kind = "crl"

\* C5: a client that starts with no timestamps makes its k-th successive call within
\* one window: for k = 1..20 the call returns (True, 20 - k), that is remaining =
\* 19, 18, ..., 0, and the 21st call returns (False, 0).
C5_RemainingCountsDown ==
    \A t \in Threads :
        (HasReturned(t) /\ admitted[ret[t].ip] # <<>>
            /\ ret[t].at - admitted[ret[t].ip][1] < WINDOW_SECONDS) =>
        LET k == Returned(ret[t].ip)
        IN  /\ k <= MAX_REQUESTS => ret[t].allowed /\ ret[t].remaining = MAX_REQUESTS - k
            /\ k = MAX_REQUESTS + 1 => ~ret[t].allowed /\ ret[t].remaining = 0

\* C6: a call made more than window_seconds after the client's most recent admitted
\* request is allowed, however many calls were rejected before it: a rejected call
\* is never more than window_seconds after the last admitted one.
C6_AllowedAfterWindow ==
    \A t \in Threads :
        (HasReturned(t) /\ ~ret[t].allowed) =>
        LET a == admitted[ret[t].ip]
        IN  a # <<>> /\ ret[t].at - a[Len(a)] <= WINDOW_SECONDS

\* a client was rejected, the window elapsed after its last admitted request, and its
\* next call was admitted
C6_Witness ==
    \E t \in Threads :
        /\ HasReturned(t) /\ ret[t].allowed
        /\ Rejections(ret[t].ip) # <<>>
        /\ LET a == admitted[ret[t].ip]
           IN  Len(a) > 1 /\ ret[t].at - a[Len(a) - 1] > WINDOW_SECONDS

\* C7 as stated: no max_requests + 1 admissions of one client lie in an interval of
\* length window_seconds (the closed interval [s, s + window_seconds] included).
C7_AtMostMaxInClosedWindow ==
    \A c \in Clients : \A i \in 1 .. Len(admitted[c]) :
        i + MAX_REQUESTS <= Len(admitted[c]) =>
            admitted[c][i + MAX_REQUESTS] - admitted[c][i] > WINDOW_SECONDS

\* C7 as amended: no max_requests + 1 admissions of one client lie in a half-open
\* interval (s, s + window_seconds]: of any max_requests + 1 admissions the last is
\* at least window_seconds after the first.
C7_AtMostMaxInWindow ==
    \A c \in Clients : \A i \in 1 .. Len(admitted[c]) :
        i + MAX_REQUESTS <= Len(admitted[c]) =>
            admitted[c][i + MAX_REQUESTS] - admitted[c][i] >= WINDOW_SECONDS

\* more than max_requests calls were admitted over time, part of the stored list was
\* purged and part kept, and a call was rejected
C7_Witness ==
    \E c \in Clients :
        /\ Len(admitted[c]) > MAX_REQUESTS
        /\ Rejections(c) # <<>>
        /\ Stored(c) # <<>> /\ Stored(c)[1] # Stored(c)[Len(Stored(c))]

\* C8: with concurrent calls for one client, at most max_requests calls are admitted
\* within one window and every admitted timestamp of the window is in the stored list.
C8_ExclusivePerClient ==
    AllIdle =>
        \A c \in Clients :
            LET inWindow == RecentRequests(admitted[c], now - WINDOW_SECONDS)
            IN  /\ Len(inWindow) <= MAX_REQUESTS
                /\ RecentRequests(Stored(c), now - WINDOW_SECONDS) = inWindow

\* ---------------------------------------------------------------- AgentMetrics
RECURSIVE SumSeq(_)
SumSeq(q) == IF q = <<>> THEN 0 ELSE q[1] + SumSeq(Tail(q))
\* the occurrences of tool x in the tools_used of the completed record_request calls
Occurrences(x) ==
    SumSeq([i \in 1 .. Len(completed) |->
               Cardinality({j \in 1 .. Len(completed[i].tools_used) :
                               completed[i].tools_used[j] = x})])
\* the completed record_request calls with the given outcome
Outcomes(success) == Cardinality({i \in 1 .. Len(completed) : completed[i].success = success})

\* C1: total_requests = successful_requests + failed_requests in every state a
\* snapshot can observe: whenever the lock is free, and in every summary returned.
C1_TotalIsSum ==
    /\ lock = NoThread =>
          metrics.total_requests = metrics.successful_requests + metrics.failed_requests
    /\ \A t \in Threads :
          ret[t].kind = "summary" =>
              ret[t].total_requests = ret[t].successful_requests + ret[t].failed_requests

\* a summary reporting at least one request was returned, and a call of record_request
\* (completed or raised) has changed the counters
C1_Witness ==
    \E t \in Threads :
        /\ ret[t].kind = "summary"
        /\ ret[t].total_requests > 0
        /\ \E u \in Threads : ret[u].kind \in {"raised", "recorded"} /\ ~ret[u].before = ret[u].after

\* C2: whenever the lock is free (after any call, and whenever a summary can read the
\* state), and in what every summary observed, each bounded sequence is within its
\* capacity: 100 latency entries, 50 precision scores, 50 resource samples, 50 traces,
\* 30 consistency checks.
C2_WithinCapacity ==
    /\ lock = NoThread =>
          /\ Len(metrics.latency_history) <= LATENCY_HISTORY_CAP
          /\ Len(metrics.precision_scores) <= PRECISION_SCORES_CAP
          /\ Len(metrics.resource_usage) <= RESOURCE_USAGE_CAP
          /\ Len(metrics.execution_traces) <= EXECUTION_TRACES_CAP
          /\ Len(metrics.consistency_checks) <= CONSISTENCY_CHECKS_CAP
    /\ \A t \in Threads :
          ret[t].kind = "summary" =>
              /\ ret[t].observed.stored.latency_history <= LATENCY_HISTORY_CAP
              /\ ret[t].observed.stored.precision_scores <= PRECISION_SCORES_CAP
              /\ ret[t].observed.stored.resource_usage <= RESOURCE_USAGE_CAP
              /\ ret[t].observed.stored.execution_traces <= EXECUTION_TRACES_CAP
              /\ ret[t].observed.stored.consistency_checks <= CONSISTENCY_CHECKS_CAP

\* an entry was appended to a full sequence, the oldest was dropped, and a summary
\* then read the state
C2_Witness ==
    \E t \in Threads :
        /\ ret[t].kind = "summary"
        /\ \E n \in SequenceNames \ {"errors"} :
              /\ ret[t].observed.appended[n] > WarmCalls
              /\ ret[t].observed.stored[n] < ret[t].observed.appended[n]

\* C3: every summary is of an untorn state: as many latency-history entries were ever
\* appended as total_requests counts, and the outcome counters add up to it.
C3_NoTornSnapshot ==
    \A t \in Threads :
        ret[t].kind = "summary" =>
            /\ ret[t].observed.appended["latency_history"] = ret[t].total_requests
            /\ ret[t].successful_requests + ret[t].failed_requests = ret[t].total_requests

\* C4: when the record_request calls made by the threads have all completed, no update
\* is lost: total_requests is their number, successful_requests and failed_requests
\* the numbers of each outcome, each tool counter the occurrences of the tool.
C4_NoLostUpdate ==
    (AllIdle /\ Len(completed) = mcalls) =>
        /\ metrics.total_requests = Len(completed)
        /\ metrics.successful_requests = Outcomes(TRUE)
        /\ metrics.failed_requests = Outcomes(FALSE)
        /\ \A x \in ToolNames : metrics.tool_calls[x] = Occurrences(x)

\* both threads completed a record_request, of different outcomes, with tools
C4_Witness ==
    /\ AllIdle /\ Len(completed) = mcalls
    /\ \A t \in Threads : ret[t].kind = "recorded"
    /\ Outcomes(TRUE) > 0 /\ Outcomes(FALSE) > 0
    /\ \E x \in ToolNames : metrics.tool_calls[x] > Len(completed)

\* C10: record_request is all-or-nothing: a call that raises leaves the counters,
\* errors, total_latency, latency_history and tool_calls as it found them, and a call
\* that returns has counted the request and appended its latency entry.
C10_AllOrNothing ==
    \A t \in Threads :
        /\ (ret[t].kind = "raised" /\ ret[t].op = "record_request") =>
              ret[t].after = ret[t].before
        /\ ret[t].kind = "recorded" =>
              /\ ret[t].after.total_requests = ret[t].before.total_requests + 1
              /\ ret[t].after.latency_history = ret[t].before.latency_history + 1

\* the limiter would reject a request of client c made now
WouldReject(c) == LimitReached(Len(RecentRequests(Stored(c), now - WINDOW_SECONDS)))

\* C9: in the request-handling layer every agent invocation is preceded by a
\* rate-limiter decision for the calling client that returned allowed=True, and a
\* request the limiter would reject never reaches invoke_agent_with_metrics.
C9_AgentBehindLimiter ==
    \A t \in Threads :
        pc[t] = "invoke_agent" =>
            /\ req[t].decision = "allowed"
            /\ ~WouldReject(req[t].client)

\* the occurrences of x in the list lst
Count(x, lst) == Cardinality({j \in 1 .. Len(lst) : lst[j] = x})

\* C11: a failure of the resource sampling inside record_request is not propagated:
\* the call returns, its counters, latency entry, tool tallies and (on failure) error
\* entry are applied, resource_usage is as it was, and the lock is released.
C11_SamplingFailureDropped ==
    \A t \in Threads :
        /\ ret[t].kind = "raised" => ret[t].line # "sample"
        /\ pc[t] = "idle" => lock # t
        /\ (ret[t].kind = "recorded" /\ ret[t].sampling = "failed") =>
              /\ ret[t].after.total_requests = ret[t].before.total_requests + 1
              /\ ret[t].after.successful_requests =
                    ret[t].before.successful_requests + (IF ret[t].success THEN 1 ELSE 0)
              /\ ret[t].after.failed_requests =
                    ret[t].before.failed_requests + (IF ret[t].success THEN 0 ELSE 1)
              /\ ret[t].after.errors = ret[t].before.errors + (IF ret[t].success THEN 0 ELSE 1)
              /\ ret[t].after.latency_history = ret[t].before.latency_history + 1
              /\ \A x \in ToolNames :
                    ret[t].after.tool_calls[x] =
                        ret[t].before.tool_calls[x] + Count(x, ret[t].tools_used)
              /\ ret[t].usage.after = ret[t].usage.before

\* a failed request that used tools was recorded while the sampling failed
C11_Witness ==
    \E t \in Threads :
        /\ ret[t].kind = "recorded" /\ ret[t].sampling = "failed"
        /\ ~ret[t].success /\ ret[t].tools_used # <<>>
        /\ lock = NoThread

\* C12: a failure inside the metrics recording step never fails the request:
\* invoke_agent_with_metrics returns its result dict even when record_request,
\* record_trace or check_consistency raises, so once the agent has been invoked the
\* chat request is answered from that dict (status 200), never by the error handler.
C12_MetricsNeverFailRequest ==
    \A t \in Threads :
        (ret[t].kind = "response" /\ ret[t].endpoint = ChatRoute
            /\ ret[t].result # NoResult) => ret[t].status = 200

\* C13: in every snapshot error_count is the cumulative number of record_request
\* calls made with success=False, that is failed_requests, and recent_errors holds
\* the last min(10, error_count) error records in append order.
C13_ErrorCountCumulative ==
    \A t \in Threads :
        ret[t].kind = "summary" =>
            LET recent == ret[t].recent_errors
            IN  /\ ret[t].error_count = ret[t].failed_requests
                /\ Len(recent) = MinOf(10, ret[t].error_count)
                /\ \A i \in 1 .. Len(recent) :
                      recent[i].seq = ret[t].error_count - Len(recent) + i

C15_EveryCallAppends ==
    \A t \in Threads :
        (ret[t].kind = "precision" /\ AllIdle) =>
            /\ appended["precision_scores"] = mcalls
            /\ metrics.precision_scores # <<>>
            /\ LET last == metrics.precision_scores[Len(metrics.precision_scores)]
               IN  /\ last.precision = ret[t].value
                   /\ last.expected = ret[t].expected
                   /\ last.actual = ret[t].actual


\* ---- get_summary: the percentiles (SpecSummary)
\* a get_summary call has returned to thread t
SummaryReturned(t) == pc[t] = "idle" /\ ret[t].kind = "summary"

\* the retained latencies, in ticks, in the order they were recorded
Retained == [i \in 1 .. Len(metrics.latency_history) |-> metrics.latency_history[i].latency]

\* min(floor(n * pct / 100), n - 1)
ClampedIndex(n, pct) == IF (n * pct) \div 100 < n - 1 THEN (n * pct) \div 100 ELSE n - 1

\* v is sorted(q)[idx], indexing from 0
IsSortedAt(q, idx, v) ==
    /\ \E i \in 1 .. Len(q) : q[i] = v
    /\ Cardinality({i \in 1 .. Len(q) : q[i] < v}) <= idx
    /\ Cardinality({i \in 1 .. Len(q) : q[i] <= v}) > idx

\* a reported number of milliseconds is exactly the latency / is the latency rounded
\* to the millisecond
ExactMilliseconds(ms, latency) == ms * TicksPerMillisecond = latency
RoundedMilliseconds(ms, latency) ==
    /\ 2 * (ms * TicksPerMillisecond - latency) <= TicksPerMillisecond
    /\ 2 * (latency - ms * TicksPerMillisecond) <= TicksPerMillisecond

PercentilesAre(Reports(_, _)) ==
    \A t \in Threads :
        SummaryReturned(t) =>
            LET q == Retained
                n == Len(q)
            IN  /\ n = 0 => ret[t].p95_latency = 0 /\ ret[t].p99_latency = 0
                /\ n >= 1 =>
                      /\ \E v \in {q[i] : i \in 1 .. n} :
                            /\ Reports(ret[t].p95_latency, v)
                            /\ IsSortedAt(q, ClampedIndex(n, 95), v)
                      /\ \E v \in {q[i] : i \in 1 .. n} :
                            /\ Reports(ret[t].p99_latency, v)
                            /\ IsSortedAt(q, ClampedIndex(n, 99), v)
                /\ n = 1 => /\ Reports(ret[t].p95_latency, q[1])
                            /\ Reports(ret[t].p99_latency, q[1])

\* the retained latencies are 1, 2, ..., 100 seconds in some order
IsSampleOneToHundred ==
    /\ Len(Retained) = 100
    /\ {Retained[i] : i \in 1 .. Len(Retained)} = {Seconds(i) : i \in 1 .. 100}

\* C16 as stated: get_summary's P95 and P99 are sorted(retained)[min(floor(n*0.95), n-1)]
\* and sorted(retained)[min(floor(n*0.99), n-1)] themselves, 0 when nothing is retained,
\* and for one retained latency both equal it.  Violated by a latency that is not a
\* whole number of milliseconds.
C16_PercentilesExact == PercentilesAre(ExactMilliseconds)

\* C16: get_summary's P95 and P99 are sorted(retained)[min(floor(n*0.95), n-1)] and
\* sorted(retained)[min(floor(n*0.99), n-1)] rounded to 3 decimals (the millisecond),
\* 0 when nothing is retained; for the sample 1..100 seconds they are 96 and 100, and
\* for one retained latency both are that latency rounded.
C16_PercentilesRounded ==
    /\ PercentilesAre(RoundedMilliseconds)
    /\ \A t \in Threads :
          SummaryReturned(t) /\ IsSampleOneToHundred =>
              /\ ret[t].p95_latency = 96 * 1000
              /\ ret[t].p99_latency = 100 * 1000

\* a summary of the sample 1..100 seconds, recorded from the last to the first, was returned
C16_Witness ==
    \E t \in Threads :
        /\ SummaryReturned(t)
        /\ IsSampleOneToHundred
        /\ Retained[1] = Seconds(100)
        /\ ret[t].p95_latency = 96 * 1000
        /\ ret[t].p99_latency = 100 * 1000


\* ---- check_consistency: a repeated query (SpecMetrics)
\* the stored entries i and i + 1 come from two successive calls with the identical
\* query (distinct queries of ConsistencyInputs are stored as distinct texts)
RepeatedAt(i) ==
    LET checks == metrics.consistency_checks
    IN  /\ checks[i + 1].seq = checks[i].seq + 1
        /\ checks[i + 1].query = checks[i].query

\* C17: of two successive check_consistency calls with the identical query, the second
\* stores a similar_previous at least 1 greater than it would without the first call,
\* which is the similar_previous the first call stored
C17_RepeatCountsPrevious ==
    \A i \in 1 .. Len(metrics.consistency_checks) - 1 :
        RepeatedAt(i) =>
            metrics.consistency_checks[i + 1].similar_previous
                >= metrics.consistency_checks[i].similar_previous + 1


\* ---- get_summary: the rates and the empty cases (SpecSummary)
\* a reported number of hundredths of a percent is exactly part / whole * 100 / is
\* part / whole * 100 rounded to 2 decimals
ExactPercentage(hundredths, part, whole) == hundredths * whole = part * 100 * 100
RoundedPercentage(hundredths, part, whole) ==
    /\ 2 * (hundredths * whole - part * 100 * 100) <= whole
    /\ 2 * (part * 100 * 100 - hundredths * whole) <= whole

RatesAre(Reports(_, _, _)) ==
    \A t \in Threads :
        SummaryReturned(t) =>
            /\ metrics.total_requests = 0 =>
                  /\ ret[t].avg_latency = 0
                  /\ ret[t].success_rate = 0
                  /\ ret[t].error_rate = 0
                  /\ ret[t].p95_latency = 0
                  /\ ret[t].p99_latency = 0
            /\ metrics.resource_usage = <<>> =>
                  /\ ret[t].avg_cpu_percent = 0
                  /\ ret[t].avg_memory_percent = 0
            /\ metrics.total_requests > 0 =>
                  /\ Reports(ret[t].success_rate, metrics.successful_requests,
                             metrics.total_requests)
                  /\ Reports(ret[t].error_rate, metrics.failed_requests,
                             metrics.total_requests)

\* C18 as stated: with no recorded requests avg_latency, success_rate, error_rate,
\* p95_latency and p99_latency are 0, with no resource samples avg_cpu_percent and
\* avg_memory_percent are 0, and otherwise success_rate is successful / total * 100 and
\* error_rate is failed / total * 100 themselves.  Violated by 1 failure in 3 requests.
C18_RatesExact == RatesAre(ExactPercentage)

\* C18: the same, success_rate and error_rate being successful / total * 100 and
\* failed / total * 100 rounded to 2 decimals
C18_RatesRounded == RatesAre(RoundedPercentage)

\* a summary was returned for 1 failure in 3 requests: 66.67 and 33.33
C18_Witness ==
    \E t \in Threads :
        /\ SummaryReturned(t)
        /\ metrics.total_requests = 3
        /\ metrics.failed_requests = 1
        /\ ret[t].success_rate = 6667
        /\ ret[t].error_rate = 3333


\* ---- generate_analysis_report: the findings (SpecReport)
\* a generate_analysis_report call has returned its report to thread t
ReportReturned(t) == pc[t] = "idle" /\ ret[t].kind = "report"

\* the levels of the findings of a report on one topic, with their number
LevelsOf(findings, topic) ==
    {findings[i].level : i \in {j \in 1 .. Len(findings) : findings[j].topic = topic}}
CountOf(findings, topic) ==
    Cardinality({j \in 1 .. Len(findings) : findings[j].topic = topic})

\* C19: the report classifies its snapshot by fixed thresholds: avg_latency > 5 s
\* critical, else > 3 s warning, else OK; error_rate > 10 % critical, else > 5 % warning,
\* else OK; avg_precision < 0.6 critical, else < 0.8 warning, else OK; a CPU warning iff
\* avg_cpu_percent > 80 and a memory warning iff avg_memory_percent > 80; exactly one
\* finding for each of latency, error rate and precision
C19_FindingsByThreshold ==
    \A t \in Threads :
        ReportReturned(t) =>
            LET snapshot == ret[t].summary
                findings == ret[t].findings
            IN  /\ CountOf(findings, "latency") = 1
                /\ CountOf(findings, "error_rate") = 1
                /\ CountOf(findings, "precision") = 1
                /\ LevelsOf(findings, "latency") =
                       {IF snapshot.avg_latency > 5000 THEN "critical"
                        ELSE IF snapshot.avg_latency > 3000 THEN "warning" ELSE "ok"}
                /\ LevelsOf(findings, "error_rate") =
                       {IF snapshot.error_rate > 1000 THEN "critical"
                        ELSE IF snapshot.error_rate > 500 THEN "warning" ELSE "ok"}
                /\ LevelsOf(findings, "precision") =
                       {IF snapshot.avg_precision < 600 THEN "critical"
                        ELSE IF snapshot.avg_precision < 800 THEN "warning" ELSE "ok"}
                /\ CountOf(findings, "cpu") = IF snapshot.avg_cpu_percent > 8000 THEN 1 ELSE 0
                /\ CountOf(findings, "memory") =
                       IF snapshot.avg_memory_percent > 8000 THEN 1 ELSE 0
                /\ LevelsOf(findings, "cpu") \cup LevelsOf(findings, "memory") \subseteq {"warning"}
                /\ \A i \in 1 .. Len(findings) :
                      findings[i].topic \in {"latency", "error_rate", "precision", "cpu", "memory"}
                /\ snapshot = Summary(metrics, appended)

\* a report on values at the thresholds and just above them: 5.001 s is critical, 10 %
\* of errors a warning, a precision of 0.6 a warning, 81 % of CPU a warning and 80 % of
\* memory none
C19_Witness ==
    \E t \in Threads :
        /\ ReportReturned(t)
        /\ ret[t].summary.avg_latency = 5001
        /\ ret[t].summary.error_rate = 1000
        /\ ret[t].summary.avg_precision = 600
        /\ ret[t].summary.avg_cpu_percent = 8100
        /\ ret[t].summary.avg_memory_percent = 8000
        /\ ret[t].findings = <<[topic |-> "latency", level |-> "critical"],
                               [topic |-> "error_rate", level |-> "warning"],
                               [topic |-> "precision", level |-> "warning"],
                               [topic |-> "cpu", level |-> "warning"]>>


\* ---- the queries leave the state alone (SpecQueries)
\* the lines of get_summary, export_metrics and generate_analysis_report
QueryLines == {"gs_lock", "gs_return", "ex_write", "ex_dump", "ex_return", "gr_report"}

\* the step is one of a query of thread t: its call, a line of it, its return or the
\* exception leaving it
IsQueryStep(t) == pc'[t] # pc[t] /\ (pc[t] \in QueryLines \/ pc'[t] \in QueryLines)

\* a line of record_request, record_trace, calculate_precision or check_consistency
\* inside the lock
WritingLines ==
    {"rr_total", "rr_total_w", "rr_outcome", "rr_outcome_w", "rr_branch",
     "rr_latency", "rr_history", "rr_history_trim", "rr_tools", "rr_tools_w",
     "rr_sample", "rr_sample_trim", "rr_unlock", "rt_append", "rt_trim", "rt_unlock",
     "cp_append", "cp_trim", "cp_unlock", "cc_append", "cc_trim", "cc_unlock"}

\* C20: no step of get_summary, export_metrics or generate_analysis_report changes a
\* field of the metrics state, whether the query returns or raises, whatever the other
\* threads are doing and however many queries were made before
C20_QueriesLeaveState ==
    [][\A t \in Threads : IsQueryStep(t) => metrics' = metrics /\ appended' = appended]_vars

\* export_metrics raised in one thread while the other was inside a recording call, and
\* a request had been recorded before
C20_Witness ==
    \E t, u \in Threads :
        /\ pc[t] = "idle"
        /\ ret[t] = Raised("export_metrics")
        /\ pc[u] \in WritingLines
        /\ metrics.total_requests > 0


\* ---- record_request is the single write path of the counters (SpecCaps)
\* the fields record_request writes
Counters(m) ==
    [total_requests |-> m.total_requests, successful_requests |-> m.successful_requests,
     failed_requests |-> m.failed_requests, total_latency |-> m.total_latency,
     latency_history |-> m.latency_history, errors |-> m.errors,
     tool_calls |-> m.tool_calls]

\* the lines of record_request, and those of record_trace, calculate_precision and
\* check_consistency
RecordLines ==
    {"rr_lock", "rr_total", "rr_total_w", "rr_outcome", "rr_outcome_w", "rr_branch",
     "rr_latency", "rr_history", "rr_history_trim", "rr_tools", "rr_tools_w",
     "rr_sample", "rr_sample_trim", "rr_unlock"}
OtherWriterLines ==
    {"rt_lock", "rt_append", "rt_trim", "rt_unlock", "cp_lock", "cp_append", "cp_trim",
     "cp_unlock", "cc_lock", "cc_append", "cc_trim", "cc_unlock"}

\* the step is one of thread t at (into, out of) one of lines
StepsAt(t, lines) == pc'[t] # pc[t] /\ (pc[t] \in lines \/ pc'[t] \in lines)

\* C22: record_request is the only operation that changes total_requests,
\* successful_requests, failed_requests, total_latency, latency_history, errors and
\* tool_calls; no step of record_trace, calculate_precision or check_consistency does
C22_SingleWritePath ==
    [][/\ \A t \in Threads :
             StepsAt(t, OtherWriterLines) => Counters(metrics') = Counters(metrics)
       /\ Counters(metrics') # Counters(metrics) =>
             \E t \in Threads : StepsAt(t, RecordLines)]_vars

\* record_trace and check_consistency have appended their entries and returned, and the
\* counters are those of the requests recorded before
C22_Witness ==
    /\ AllIdle
    /\ appended["execution_traces"] = WarmCalls + 1
    /\ appended["consistency_checks"] = WarmCalls + 1
    /\ Counters(metrics) = Counters(WarmMetrics(WarmCalls))


\* ---- the resource sample and the lock (SpecMetrics)
\* C23: the blocking CPU / memory sample of a record_request is taken while the metrics
\* lock is not held, so no thread waits for the lock behind a sample
C23_SampleOutsideLock ==
    \A t \in Threads : pc[t] = "rr_sample" => lock # t


\* the client the call of thread t is for (no client when t is in no call)
ClientOf(fr, t) == IF "ip" \in DOMAIN fr[t] THEN fr[t].ip ELSE ""
\* a step of thread t inside check_rate_limit, and the client it is made for
CrlStepFor(t, a) ==
    /\ pc'[t] # pc[t]
    /\ \/ pc[t] \in {"crl_init", "crl_filter", "crl_store", "crl_check", "crl_remaining"}
          /\ ClientOf(frame, t) = a
       \/ pc'[t] = "crl_init" /\ ClientOf(frame', t) = a
\* what the call of another thread holds: its arguments, its clock reading, its filtered list
HeldBy(fr, h, u) ==
    IF "recent" \in DOMAIN fr[u]
    THEN <<fr[u].ip, fr[u].now, fr[u].cutoff, IF fr[u].recent = Nil THEN <<>> ELSE h[fr[u].recent]>>
    ELSE <<>>
\* the timestamps a call counts are timestamps of its own client's admitted calls
CountsOwnAdmitted(t) ==
    LET counted == heap[frame[t].recent]
    IN  \A i \in 1..Len(counted) :
            \E j \in 1..Len(admitted[frame[t].ip]) : admitted[frame[t].ip][j] = counted[i]

\* C24: a step of check_rate_limit made for client A changes neither the timestamps stored
\* for another client B, nor B's admitted calls, nor what a call in progress for B holds or
\* has returned; and the list a call tests against the limit holds only timestamps of its
\* own client's admitted calls.
C24_ClientsIndependent ==
    /\ [](\A t \in Threads : pc[t] = "crl_check" => CountsOwnAdmitted(t))
    /\ [][\A t \in Threads : \A a \in Clients : CrlStepFor(t, a) =>
            /\ \A b \in Clients \ {a} :
                  /\ Stored(b)' = Stored(b)
                  /\ (rate_limit_storage'[b] = Nil) = (rate_limit_storage[b] = Nil)
                  /\ admitted'[b] = admitted[b]
                  /\ Rejections(b)' = Rejections(b)
            /\ \A u \in Threads \ {t} :
                  ClientOf(frame, u) # a =>
                      /\ HeldBy(frame', heap', u) = HeldBy(frame, heap, u)
                      /\ ret'[u] = ret[u]]_vars
\* two clients have been served by two threads: one made the last call of its budget,
\* the other its first
C24_Witness ==
    \E t, u \in Threads :
        /\ t # u
        /\ pc[t] = "idle" /\ ret[t].kind = "crl" /\ ret[t].allowed
        /\ pc[u] = "idle" /\ ret[u].kind = "crl" /\ ret[u].allowed
        /\ ret[u].ip # ret[t].ip
        /\ Len(Stored(ret[t].ip)) = MAX_REQUESTS
        /\ Stored(ret[t].ip)[MAX_REQUESTS] = ret[t].at
        /\ Stored(ret[u].ip) = <<ret[u].at>>

\* a request to a route decorated with apply_rate_limit has been answered to thread t
Answered(t) == pc[t] = "idle" /\ ret[t].kind = "response" /\ ret[t].endpoint = HealthRoute

\* C25: a request check_rate_limit rejected is answered 429 with the body
\* {success: false, error: ...} and its handler has not run; a request it admitted is
\* answered with the status and body its handler returned, and the handler ran once.  The
\* handler is entered only by admitted requests, and never a second time.
C25_RejectedSkipsHandler ==
    /\ [](\A t \in Threads :
            /\ Answered(t) /\ ret[t].decision = "rejected" =>
                  /\ ret[t].handled = 0
                  /\ ret[t].status = 429
                  /\ ret[t].body = RateLimitBody
            /\ Answered(t) /\ ret[t].decision = "allowed" =>
                  /\ ret[t].handled = 1
                  /\ ret[t].status = ret[t].returned.status
                  /\ ret[t].body = ret[t].returned.body
            /\ Answered(t) => ret[t].decision \in {"rejected", "allowed"})
    /\ [][\A t \in Threads :
            /\ pc'[t] = "arl_decided" /\ pc[t] # "arl_decided" =>
                  req'[t].decision = IF ret[t].allowed THEN "allowed" ELSE "rejected"
            /\ req'[t].endpoint = HealthRoute /\ req[t].endpoint = HealthRoute
                 /\ req'[t].handled # req[t].handled =>
                  /\ req[t].decision = "allowed"
                  /\ req[t].handled = 0 /\ req'[t].handled = 1]_vars
\* one client's request was refused and another's served, and one handler returned an error
\* of its own
C25_Witness ==
    \E t, u \in Threads :
        /\ Answered(t) /\ ret[t].decision = "rejected" /\ ret[t].status = 429
        /\ Answered(u) /\ ret[u].decision = "allowed" /\ ret[u].status = 500
             /\ ret[u].handled = 1


\* every timestamp of the list was appended by an admitted call of the client
AllAdmitted(lst, c) ==
    \A i \in 1..Len(lst) : \E j \in 1..Len(admitted[c]) : admitted[c][j] = lst[i]
\* the event log_security_event records for a refused client
RateLimitExceeded(c) == [type |-> "rate_limit_exceeded", ip |-> AnonymizeIp(c), client |-> c]

\* C26: the step that rejects a call appends one rate_limit_exceeded event (with the
\* anonymized address) to the security log and leaves the client's stored timestamps as
\* they are; the step that admits a call appends the call's timestamp, once, to the
\* client's stored list and logs nothing; a call takes exactly one of the two steps, and
\* no other step of check_rate_limit logs an event or stores a timestamp that no
\* admission appended.
C26_RejectLogsAdmitStores ==
    [][\A t \in Threads : \A c \in Clients : frame[t].ip = c =>
             /\ (pc[t] = "crl_check" /\ pc'[t] # "crl_check" /\ pc'[t] # "crl_remaining") =>
                   /\ security_log' = Append(security_log, RateLimitExceeded(c))
                   /\ Stored(c)' = Stored(c)
                   /\ ret'[t].kind = "crl" /\ ~ret'[t].allowed /\ ret'[t].remaining = 0
             /\ (pc[t] = "crl_check" /\ pc'[t] = "crl_remaining") =>
                   /\ Stored(c)' = Append(Stored(c), frame[t].now)
                   /\ security_log' = security_log
             /\ (pc[t] = "crl_remaining" /\ pc'[t] # "crl_remaining") =>
                   /\ ret'[t].kind = "crl" /\ ret'[t].allowed
                   /\ Stored(c)' = Stored(c)
                   /\ security_log' = security_log
             /\ (pc[t] \in {"crl_init", "crl_filter", "crl_store"} /\ pc'[t] # pc[t]) =>
                   /\ security_log' = security_log
                   /\ AllAdmitted(Stored(c)', c)
                   /\ admitted'[c] = admitted[c]
             /\ (pc'[t] = "crl_remaining" /\ pc[t] # "crl_remaining") => pc[t] = "crl_check"
             /\ (ret'[t] # ret[t] /\ ret'[t].kind = "crl") =>
                   pc[t] = IF ret'[t].allowed THEN "crl_remaining" ELSE "crl_check"]_vars
\* a client one call short of its limit was admitted and then refused: the list holds the
\* one new timestamp, the log the one event
C26_Witness ==
    \E t \in Threads :
        /\ HasReturned(t) /\ ~ret[t].allowed
        /\ security_log = <<RateLimitExceeded(ret[t].ip)>>
        /\ Len(Stored(ret[t].ip)) = MAX_REQUESTS
        /\ Stored(ret[t].ip)[MAX_REQUESTS] = ret[t].at
        /\ ret[t].at > 0


\* the capacity of each bounded sequence
Capacity ==
    [latency_history |-> LATENCY_HISTORY_CAP, precision_scores |-> PRECISION_SCORES_CAP,
     resource_usage |-> RESOURCE_USAGE_CAP, execution_traces |-> EXECUTION_TRACES_CAP,
     consistency_checks |-> CONSISTENCY_CHECKS_CAP]
\* q holds the last min(k, cap) of k appended entries, oldest first (entries are numbered
\* in the order they were appended)
HoldsMostRecent(q, k, cap) ==
    /\ Len(q) = MinOf(k, cap)
    /\ \A i \in 1..Len(q) : q[i].seq = k - Len(q) + i

\* C27: whenever the lock is free, each bounded sequence holds exactly the most recently
\* appended min(k, capacity) of the k entries ever appended to it, in the order they were
\* appended.
C27_TrimIsFifo ==
    lock = NoThread =>
        \A n \in DOMAIN Capacity : HoldsMostRecent(metrics[n], appended[n], Capacity[n])
\* two more entries were appended to a full sequence: its two oldest are gone
C27_Witness ==
    /\ lock = NoThread
    /\ \E n \in DOMAIN Capacity :
          /\ appended[n] = WarmCalls + 2
          /\ Len(metrics[n]) = Capacity[n]
          /\ metrics[n][1].seq = WarmCalls + 3 - Capacity[n]
          /\ metrics[n][Capacity[n]].seq = WarmCalls + 2


\* C28: in every quiescent state (no call in progress) latency_history holds
\* min(100, total_requests) entries and resource_usage min(50, s) entries, s being the
\* number of record_request calls whose resource sample was taken and appended.
C28_LengthsFollowCounts ==
    (AllIdle /\ lock = NoThread) =>
        /\ Len(metrics.latency_history) = MinOf(LATENCY_HISTORY_CAP, metrics.total_requests)
        /\ Len(metrics.resource_usage) = MinOf(RESOURCE_USAGE_CAP, appended["resource_usage"])


\* the counters of an instance: the three request counters, every tool counter and the
\* number of stored errors
CounterValues(m) ==
    [n \in {"total_requests", "successful_requests", "failed_requests", "errors"}
            \cup DOMAIN m.tool_calls |->
        IF n = "errors" THEN Len(m.errors)
        ELSE IF n \in DOMAIN m.tool_calls THEN m.tool_calls[n]
        ELSE m[n]]

\* C29: total_requests, successful_requests, failed_requests, every tool counter and
\* len(errors) are never negative, and no step of any operation decreases one of them.
C29_CountersNeverDecrease ==
    /\ [](\A n \in DOMAIN CounterValues(metrics) : CounterValues(metrics)[n] >= 0)
    /\ [][\A n \in DOMAIN CounterValues(metrics) :
            CounterValues(metrics)'[n] >= CounterValues(metrics)[n]]_vars
\* after a failed and a successful request, one of which used a tool, the counters
\* stand at what the two requests added
C29_Witness ==
    /\ AllIdle
    /\ metrics.total_requests = 2
    /\ metrics.successful_requests = 1
    /\ metrics.failed_requests = 1
    /\ Len(metrics.errors) = 1
    /\ \E n \in DOMAIN metrics.tool_calls : metrics.tool_calls[n] >= 1


\* view is the last min(n, len(stored)) entries of stored, in stored order
IsSuffixView(view, stored, n) ==
    /\ Len(view) = MinOf(n, Len(stored))
    /\ \A i \in 1..Len(view) : view[i] = stored[Len(stored) - Len(view) + i]
\* the display views of a snapshot against the sequences it was taken from
ViewsAreSuffixes(snapshot, m) ==
    /\ IsSuffixView(snapshot.latency_history, m.latency_history, 30)
    /\ IsSuffixView(snapshot.precision_history, m.precision_scores, 20)
    /\ IsSuffixView(snapshot.recent_errors, m.errors, 10)
    /\ IsSuffixView(snapshot.resource_usage, m.resource_usage, 20)
    /\ IsSuffixView(snapshot.execution_traces, m.execution_traces, 10)

\* C30: the snapshot get_summary returns holds, of the sequences stored when it is taken,
\* the last min(30, .) latency entries, the last min(20, .) precision entries, the last
\* min(10, .) errors, the last min(20, .) resource samples and the last min(10, .) traces,
\* each in stored order.
C30_ViewsAreSuffixes ==
    [][\A t \in Threads :
          (pc[t] = "gs_return" /\ ret'[t] # ret[t] /\ ret'[t].kind = "summary") =>
              ViewsAreSuffixes(ret'[t], metrics)]_vars
\* a snapshot of full sequences after a failed request: four views are cut to their
\* display length and end with the newest entry, recent_errors holds every error
C30_Witness ==
    \E t \in Threads :
        /\ ret[t].kind = "summary"
        /\ Len(ret[t].latency_history) = 30 /\ ret[t].observed.stored.latency_history > 30
        /\ Len(ret[t].precision_history) = 20
        /\ Len(ret[t].resource_usage) = 20
        /\ Len(ret[t].execution_traces) = 10
        /\ Len(ret[t].recent_errors) \in 1..9
        /\ ret[t].latency_history[30].seq > WarmCalls


\* the dictionary a summary is: its keys and their values
Document(summary) == [key \in {SummaryKeys[i] : i \in 1 .. Len(SummaryKeys)} |-> summary[key]]
\* a dictionary without its generated_at
Unstamped(document) == [key \in DOMAIN document \ {"generated_at"} |-> document[key]]

\* C21: when export_metrics returns, the file holds exactly the snapshot it returns; and
\* a get_summary that follows an export with no mutating call in between returns what
\* the re-loaded file holds, in every field except generated_at.
C21_ArtifactIsSnapshot ==
    [][\A t \in Threads :
          /\ (pc[t] = "ex_return" /\ ret'[t].kind = "exported") =>
                JsonLoad(artifact') = Document(ret'[t].summary)
          /\ (pc[t] = "gs_return" /\ ret'[t].kind = "summary" /\ pc'[t] = "idle") =>
                \A u \in Threads \ {t} :
                    (/\ ret[u].kind = "exported"
                     /\ JsonLoad(artifact) = Document(ret[u].summary)
                     /\ ret[u].summary.observed = ret'[t].observed) =>
                        Unstamped(JsonLoad(artifact)) = Unstamped(Document(ret'[t]))]_vars


\* ---- get_summary: the populations of the average and of the percentiles (SpecLatency)
\* the sum of the latencies of every request whose latency was ever recorded: those
\* still retained, and those trimmed away, which in these runs are requests of the
\* warm-up (1 tick each)
EverRecordedLatency ==
    SumField(metrics.latency_history, "latency")
        + (appended["latency_history"] - Len(metrics.latency_history))

\* thread t leaves get_summary with its summary
GsReturns(t) == pc[t] = "gs_return" /\ pc'[t] = "idle"

\* the percentile of a summary is the retained latency at the clamped index, rounded
PercentileOfRetained(reported, pct) ==
    IF Retained = <<>> THEN reported = 0
    ELSE \E v \in {Retained[i] : i \in 1 .. Len(Retained)} :
            /\ IsSortedAt(Retained, ClampedIndex(Len(Retained), pct), v)
            /\ RoundedMilliseconds(reported, v)

PopulationsOf(Reports(_, _)) ==
    \A t \in Threads :
        GsReturns(t) =>
            /\ metrics.total_requests > 0 =>
                  Reports(ret'[t].avg_latency * metrics.total_requests, EverRecordedLatency)
            /\ PercentileOfRetained(ret'[t].p95_latency, 95)
            /\ PercentileOfRetained(ret'[t].p99_latency, 99)
            /\ Len(Retained) <= LATENCY_HISTORY_CAP

\* the reported average times the number of requests is the sum up to the rounding of
\* the average to the millisecond
RoundedAverage(reported_times_n, total) ==
    /\ 2 * (reported_times_n * TicksPerMillisecond - total)
          <= metrics.total_requests * TicksPerMillisecond
    /\ 2 * (total - reported_times_n * TicksPerMillisecond)
          <= metrics.total_requests * TicksPerMillisecond

\* C31 as stated: avg_latency of a snapshot is the sum of the latencies of all requests
\* ever recorded divided by total_requests itself, and p95/p99 come from the at most
\* 100 retained entries.  Violated by an average that is not a whole number of
\* milliseconds.
C31_AverageExact == [][PopulationsOf(ExactMilliseconds)]_vars

\* C31: avg_latency of a snapshot is the sum of the latencies of all requests ever
\* recorded (not only the retained ones) divided by total_requests, rounded to 3
\* decimals, while p95_latency and p99_latency are taken from the at most 100 retained
\* latency_history entries only; after more than 100 records the two populations differ
C31_AverageOverAllPercentilesOverRetained == [][PopulationsOf(RoundedAverage)]_vars

\* a summary returned after 101 latencies were recorded, 100 of them retained: its
\* average is not the average of the retained latencies, and its percentiles are two
\* of the retained latencies
C31_Witness ==
    \E t \in Threads :
        /\ SummaryReturned(t)
        /\ lock = NoThread
        /\ ret[t].observed.appended = appended
        /\ appended["latency_history"] = LATENCY_HISTORY_CAP + 1
        /\ ret[t].observed.stored.latency_history = LATENCY_HISTORY_CAP
        /\ ret[t].total_requests > LATENCY_HISTORY_CAP
        /\ ret[t].avg_latency # AvgLatencyRetained(metrics)
        /\ ret[t].avg_latency = 990
        /\ ret[t].p99_latency = 100000
        /\ ret[t].p95_latency = 0


\* ---- record_request: the tool counters (SpecTools)
\* the sum of len(tools_used) over the completed record_request calls
CompletedToolUses == SumSeq([i \in 1 .. Len(completed) |-> Len(completed[i].tools_used)])

\* thread t leaves record_request normally
RrReturns(t) == pc[t] = "rr_unlock" /\ pc'[t] = "idle"

\* the occurrences of tool x in a tool list
OccurrencesIn(tools_used, x) ==
    Cardinality({j \in 1 .. Len(tools_used) : tools_used[j] = x})

ToolCallsFollowCompleted ==
    /\ \A t \in Threads :
          RrReturns(t) =>
              \A x \in ToolNames :
                  ret'[t].after.tool_calls[x] =
                      ret'[t].before.tool_calls[x] + OccurrencesIn(frame[t].tools_used, x)
    /\ \A t \in Threads :
          GsReturns(t) =>
              /\ ret'[t].total_tool_calls = SumOf(ret'[t].tool_usage, ToolNames)
              /\ ret'[t].total_tool_calls = CompletedToolUses
    /\ \A x \in ToolNames : metrics.tool_calls[x] > 0 => metrics'.tool_calls[x] > 0

\* C32: each record_request adds to tool_calls[t] the occurrences of t in its
\* tools_used and nothing else; the total_tool_calls of every snapshot is the sum of
\* its tool_usage values and the sum of len(tools_used) over the completed
\* record_request calls; a tool counted once stays counted.  Violated by a call that
\* raises inside the loop after it has counted a tool.
C32_ToolCallsFollowCompleted == [][ToolCallsFollowCompleted]_vars


\* ---- check_rate_limit: what a sequential call leaves stored (SpecRateSeq)
\* thread t returns from check_rate_limit
CrlReturns(t) == pc[t] \in {"crl_check", "crl_remaining"} /\ pc'[t] = "idle"

\* some timestamp of lst is not in kept
SomeRemoved(lst, kept) ==
    \E i \in 1 .. Len(lst) : \A j \in 1 .. Len(kept) : kept[j] # lst[i]

StoredAfterCall ==
    \A t \in Threads, c \in Clients :
        (CrlReturns(t) /\ frame[t].ip = c) =>
            /\ Len(Stored(c)') <= MAX_REQUESTS
            /\ \A i \in 1 .. Len(Stored(c)') : Stored(c)'[i] > frame[t].cutoff

RemovedOnlyByOwnCheck ==
    \A c \in Clients :
        SomeRemoved(Stored(c), Stored(c)') =>
            \E t \in Threads :
                /\ pc[t] = "crl_store" /\ pc'[t] = "crl_check"
                /\ frame[t].ip = c
                /\ \A i \in 1 .. Len(Stored(c)) :
                      Stored(c)[i] <= frame[t].cutoff
                          <=> (\A j \in 1 .. Len(Stored(c)') : Stored(c)'[j] # Stored(c)[i])

\* C33: when a sequential check_rate_limit call for a client returns, the client's
\* stored list holds at most max_requests timestamps, all strictly newer than the
\* call's cutoff; a stored timestamp of a client is removed only by a check for that
\* client (which removes the expired ones, and only them), never by the passing of time
\* or by the check of another client.
C33_StoredWithinWindow == [][StoredAfterCall /\ RemovedOnlyByOwnCheck]_vars

\* the first client filled its window at time 0 and was rejected; at time 60 the other
\* client was checked, and then the first client's check removed its 20 expired
\* timestamps and stored its own
C33_Witness ==
    \E t \in Threads, c \in Clients, o \in Clients :
        /\ HasReturned(t) /\ ret[t].ip = c /\ ret[t].allowed
        /\ o # c
        /\ Len(admitted[c]) = MAX_REQUESTS + 1
        /\ Rejections(c) # <<>>
        /\ Stored(c) = <<ret[t].at>>
        /\ ret[t].at = WINDOW_SECONDS
        /\ admitted[o] = <<WINDOW_SECONDS>>
        /\ Stored(o) = <<WINDOW_SECONDS>>


\* ---- check_rate_limit: the boundary of the window (SpecRate)
\* the k-th most recent admission of client c
KthLastAdmitted(c, k) == admitted[c][Len(admitted[c]) + 1 - k]

\* C34: the window boundary is strict.  A call is rejected only if the 20 most recent
\* admissions of its client are all less than window_seconds old, so a call made
\* exactly window_seconds after the oldest of 20 admitted requests is admitted; and
\* after a call has returned no stored timestamp is at its cutoff or older.
C34_BoundaryIsStrict ==
    \A t \in Threads :
        HasReturned(t) =>
            /\ ~ret[t].allowed =>
                  /\ Len(admitted[ret[t].ip]) >= MAX_REQUESTS
                  /\ ret[t].at - KthLastAdmitted(ret[t].ip, MAX_REQUESTS) < WINDOW_SECONDS
            /\ \A i \in 1 .. Len(Stored(ret[t].ip)) :
                  Stored(ret[t].ip)[i] > ret[t].at - WINDOW_SECONDS

\* a client was admitted 20 times, was rejected within the window, and its call made
\* exactly window_seconds after the oldest of the 20 is admitted and purges it
C34_Witness ==
    \E t \in Threads :
        /\ HasReturned(t) /\ ret[t].allowed
        /\ Len(admitted[ret[t].ip]) = MAX_REQUESTS + 1
        /\ Rejections(ret[t].ip) # <<>>
        /\ KthLastAdmitted(ret[t].ip, 1) = ret[t].at
        /\ ret[t].at - KthLastAdmitted(ret[t].ip, MAX_REQUESTS + 1) = WINDOW_SECONDS
        /\ \A i \in 1 .. Len(Stored(ret[t].ip)) :
              Stored(ret[t].ip)[i] # KthLastAdmitted(ret[t].ip, MAX_REQUESTS + 1)


\* ---- check_consistency: what is counted and what is appended (SpecCaps)
\* the line of check_consistency thread t is at, and the line before it
CcLineBefore(line) ==
    CASE line = "cc_lock" -> "idle"
      [] line = "cc_append" -> "cc_lock"
      [] line = "cc_trim" -> "cc_append"
      [] line = "cc_unlock" -> "cc_trim"
      [] OTHER -> line

\* thread t executes the append of check_consistency
CcAppends(t) == pc[t] = "cc_append" /\ pc'[t] = "cc_trim"

\* the stored queries that have a word in common with query, letter case aside
SharingAWord(query, checks) ==
    {i \in 1 .. Len(checks) : WordSet(Lower(query)) \cap WordSet(Lower(checks[i].query)) # {}}

CountsOnlyPrevious ==
    /\ \A t \in Threads :
          CcAppends(t) =>
              LET before == metrics.consistency_checks
                  after == metrics'.consistency_checks
                  new == after[Len(after)]
              IN  /\ Len(after) = Len(before) + 1
                  /\ SubSeq(after, 1, Len(before)) = before
                  /\ new.seq = appended["consistency_checks"] + 1
                  /\ new.similar_previous >= 0
                  /\ new.similar_previous <= Len(before)
                  /\ new.similar_previous <= Cardinality(SharingAWord(frame[t].query, before))
                  /\ Len(before) <= CONSISTENCY_CHECKS_CAP
    /\ appended'["consistency_checks"] # appended["consistency_checks"] =>
          /\ appended'["consistency_checks"] = appended["consistency_checks"] + 1
          /\ \E t \in Threads : CcAppends(t)
    /\ \A t \in Threads :
          (pc'[t] # pc[t] /\ pc'[t] \in {"cc_lock", "cc_append", "cc_trim", "cc_unlock"}) =>
              pc[t] = CcLineBefore(pc'[t])
    /\ \A t \in Threads :
          (pc'[t] # pc[t] /\ pc[t] \in {"cc_lock", "cc_append", "cc_trim"}) =>
              pc[t] = CcLineBefore(pc'[t])

\* C35: the similar_previous of the entry a check_consistency call appends counts only
\* entries retained before the append: it is between 0 and their number (at most 30),
\* so the new entry is not compared with itself; and a call appends exactly one entry:
\* it passes its append once, and nothing else appends to consistency_checks.
C35_CountsOnlyPrevious == [][CountsOnlyPrevious]_vars

\* a call made with 30 checks retained, all similar to its query, has returned: its
\* entry is the last one retained and counts 30, not 31
C35_Witness ==
    \E t \in Threads :
        /\ AllIdle
        /\ ret[t].kind = "checked"
        /\ appended["consistency_checks"] = WarmCalls + 1
        /\ Len(metrics.consistency_checks) = CONSISTENCY_CHECKS_CAP
        /\ LET new == metrics.consistency_checks[CONSISTENCY_CHECKS_CAP]
           IN  /\ new.seq = WarmCalls + 1
               /\ new.similar_previous = CONSISTENCY_CHECKS_CAP


\* ---- invoke_agent_with_metrics: the order of its metrics calls (SpecInvoke)
\* thread t enters the method whose first line is first
Enters(t, first) == pc'[t] = first /\ pc[t] # first

RecordThenTrace ==
    /\ \A t \in Threads :
          /\ (pc[t] = "invoke_agent" /\ pc'[t] # pc[t]) =>
                /\ pc'[t] = "rr_lock"
                /\ frame'[t].op = "record_request"
                /\ frame'[t].success = req'[t].result.success
          /\ Enters(t, "rr_lock") => pc[t] = "invoke_agent"
          /\ Enters(t, "invoke_agent") => pc[t] = "chat_empty"
          /\ Enters(t, "rt_lock") =>
                /\ pc[t] = "invoke_trace"
                /\ req[t].result.success
                /\ ret[t].kind = "recorded" /\ ret[t].success
          /\ Enters(t, "cc_lock") =>
                /\ pc[t] = "invoke_check"
                /\ req[t].result.success
                /\ ret[t].kind = "traced"
          /\ (pc[t] = "rr_unlock" /\ pc'[t] # pc[t]) =>
                pc'[t] = (IF frame[t].success THEN "invoke_trace" ELSE "chat_respond")
          /\ (pc[t] \in {"rr_lock", "rr_total", "rr_unlock"} /\ pc'[t] \notin RecordLines) =>
                pc'[t] \in {"invoke_trace", "chat_respond"}
    /\ appended'["execution_traces"] <= metrics'.successful_requests
    /\ \A t \in Threads :
          (pc[t] = "gs_return" /\ pc'[t] = "idle") =>
              ret'[t].observed.appended["execution_traces"] <= ret'[t].successful_requests

LockLines == {"rr_lock", "rt_lock", "cp_lock", "cc_lock", "gs_lock"}
\* the lines of export_metrics and generate_analysis_report after their get_summary
AfterSummaryLines == {"ex_write", "ex_dump", "ex_return", "gr_report"}

LockReleasedOnExit ==
    \A t \in Threads :
        /\ pc[t] = "idle" => lock # t
        /\ pc[t] \in LockLines => lock # t
        /\ pc[t] \in AfterSummaryLines => lock # t

\* C37: the metrics lock is released on every exit path of every AgentMetrics method,
\* exceptions included, and no method waits for the lock while holding it; so, every
\* thread that can take a step eventually taking one, every call of record_request,
\* record_trace, calculate_precision, check_consistency, get_summary, export_metrics
\* and generate_analysis_report eventually completes.
C37_EveryCallCompletes ==
    /\ []LockReleasedOnExit
    /\ \A t \in Threads : (pc[t] # "idle") ~> (pc[t] = "idle")

\* a record_request call has left by an exception, and the other thread, which called
\* in the meantime, holds the lock
C37_Witness ==
    \E t \in Threads, u \in Threads :
        /\ t # u
        /\ pc[t] = "idle" /\ ret[t].kind = "raised" /\ ret[t].op = "record_request"
        /\ lock = u
        /\ pc[u] \notin LockLines \cup {"idle"}


\* ---- get_summary: the average precision (SpecMean)
\* twice a precision score: the scores of these runs are 0, 1/2 and 1
Twice(p) == (2 * p.num) \div p.den
\* twice the sum of the retained precision scores
TwiceRetainedPrecision ==
    SumSeq([i \in 1 .. Len(metrics.precision_scores) |->
               Twice(metrics.precision_scores[i].precision)])

\* thread t leaves get_summary with its summary, to its caller
GsLeaves(t) == pc[t] = "gs_return" /\ pc'[t] # pc[t]
\* thread t returns the report
GrReturns(t) == pc[t] = "gr_report" /\ pc'[t] = "idle" /\ ret'[t].kind = "report"

\* the reported mean, in thousandths, of n scores whose doubles add up to sum
ExactMean(reported, n, sum) == 2 * n * reported = 1000 * sum
RoundedMean(reported, n, sum) ==
    /\ 2 * n * reported - 1000 * sum <= n
    /\ 1000 * sum - 2 * n * reported <= n

PrecisionMeanOf(Reports(_, _, _)) ==
    /\ \A t \in Threads :
          GsLeaves(t) =>
              LET n == Len(metrics.precision_scores)
              IN  /\ n <= PRECISION_SCORES_CAP
                  /\ n = 0 => ret'[t].avg_precision = 0
                  /\ n > 0 => Reports(ret'[t].avg_precision, n, TwiceRetainedPrecision)
    /\ \A t \in Threads :
          (GrReturns(t) /\ ret[t].observed.stored.precision_scores = 0) =>
              /\ ret'[t].summary.avg_precision = 0
              /\ LevelsOf(ret'[t].findings, "precision") = {"critical"}

\* C38 as stated: avg_precision of a snapshot is the mean itself of the retained
\* precision scores (at most 50), 0 when none is retained, and the report of an
\* aggregator with no precision score has the precision-critical finding.  Violated
\* by a mean that has more than 3 decimals.
C38_MeanExact == [][PrecisionMeanOf(ExactMean)]_vars

\* C38: avg_precision of a snapshot is the mean of the retained precision scores (at
\* most 50) rounded to 3 decimals, 0 when none is retained, and the report of an
\* aggregator with no precision score has the precision-critical finding
C38_MeanOfRetained == [][PrecisionMeanOf(RoundedMean)]_vars

\* a report of a fresh aggregator, with no precision score and the critical finding,
\* while the other thread has a report on three scores of mean 2/3 (0.667, a warning)
C38_Witness ==
    \E t \in Threads, u \in Threads :
        /\ ReportReturned(t)
        /\ ret[t].summary.observed.stored.precision_scores = 0
        /\ ret[t].summary.avg_precision = 0
        /\ LevelsOf(ret[t].findings, "precision") = {"critical"}
        /\ ReportReturned(u)
        /\ ret[u].summary.observed.stored.precision_scores = 3
        /\ ret[u].summary.avg_precision = 667
        /\ LevelsOf(ret[u].findings, "precision") = {"warning"}


\* ---- the security log keeps the last 1000 events (SpecLog)
LogKeepsMostRecent ==
    LET rejecting == {t \in Threads : pc[t] = "crl_check" /\ pc'[t] = "idle" /\ ~ret'[t].allowed}
        old == Len(security_log)
        kept == Len(security_log') - 1
    IN  /\ Len(security_log') <= SECURITY_LOG_CAP
        /\ rejecting = {} => security_log' = security_log
        /\ \A t \in rejecting :
              /\ Len(security_log') = MinOf(old + 1, SECURITY_LOG_CAP)
              /\ security_log'[kept + 1] = RateLimitExceeded(frame[t].ip)
              /\ \A i \in 1 .. kept : security_log'[i] = security_log[old - kept + i]

\* C39: the security log is bounded.  Every log_security_event call leaves at most
\* 1000 events: the new event last, before it the most recent of the events held
\* before, in their order; so after any sequence of calls, repeated rate-limit
\* rejections included, the log is the last 1000 events logged, in order.
C39_LogKeepsMostRecent == [][LogKeepsMostRecent]_vars

\* the log was full and two calls were rejected: it holds 1000 events, the earlier
\* third to thousandth and the two rejections
C39_Witness ==
    /\ AllIdle
    /\ Len(security_log) = SECURITY_LOG_CAP
    /\ security_log[1] = WarmEvent(3)
    /\ security_log[SECURITY_LOG_CAP - 2] = WarmEvent(SECURITY_LOG_CAP)
    /\ security_log[SECURITY_LOG_CAP - 1] = RateLimitExceeded(FirstClient)
    /\ security_log[SECURITY_LOG_CAP] = RateLimitExceeded(FirstClient)

====
